---- MODULE Spec2Model ----
(***************************************************************************)
(* ABI lowering and constant encoding of rustc_codegen_nvvm.               *)
(*                                                                         *)
(*   abi.rs    ArgAttributes::apply_attrs_to_llfn / apply_attrs_to_callsite, *)
(*             Reg::llvm_type, CastTarget::llvm_type, FnAbi::llvm_type,    *)
(*             apply_attrs_llfn, apply_attrs_callsite, get_param,          *)
(*             store_fn_arg, readjust_fn_abi                               *)
(*   consts.rs const_alloc_to_llvm, check_and_apply_linkage, const_cstr,   *)
(*             static_addr_of, get_static, codegen_static                  *)
(*   back.rs   module_codegen, optimize                                    *)
(*                                                                         *)
(* The specifications share the variables:                                 *)
(*   SpecReg    one register chunk is lowered                              *)
(*   SpecCast   one CastTarget is lowered                                  *)
(*   SpecSig    one function descriptor is consumed by one operation       *)
(*   SpecAttrs  one attribute set is applied at both kinds of site         *)
(*   SpecCall   the attributes of one call are applied                     *)
(*   SpecUnit   one compilation unit lowers several descriptors and then   *)
(*              retrieves parameters                                       *)
(*   SpecEncodeUnit  one unit encodes several memory images                *)
(*   SpecConst  one memory image is encoded                                *)
(*   SpecLinkage   one foreign static is declared with its linkage         *)
(*   SpecOptimize  one module is optimized                                 *)
(*   SpecUnits     two compilation units interleave their operations       *)
(*   SpecStatics   one unit interns constants                              *)
(*   SpecCallSeq   the call sites of one builder                           *)
(*   SpecModule    module_codegen of one unit, step by step                *)
(*   SpecReadjust  one descriptor is readjusted                            *)
(***************************************************************************)
EXTENDS Integers, Sequences, FiniteSets, TLC

VARIABLES
    cast,                   \* SpecCast: the CastTarget handed to llvm_type
    cast_ret,               \* SpecCast: what CastTarget::llvm_type did
    fn_abi,                 \* SpecSig/SpecUnit: descriptor of the last operation
    sig_ret,                \* SpecSig/SpecUnit: outcome of the last operation
    remapped_integer_args,  \* cx.remapped_integer_args: concrete fn type -> record
    writes,                 \* number of insert calls made per concrete fn type
    nlower,                 \* number of signature lowerings done in the unit
    declared,               \* descriptors of the functions declared in the unit
    alloc,                  \* SpecConst: the memory image
    threshold,              \* SpecConst: partially_uninit_const_threshold
    llvals,                 \* SpecConst: outcome of const_alloc_to_llvm
    encoded,                \* SpecEncodeUnit: the encode calls of the unit so far
    attrs,                  \* SpecAttrs: the ArgAttributes and the place
    attached,               \* SpecAttrs: what each entry point attached
    reg_st,                 \* SpecReg: a register chunk and its lowering
    link_st,                \* SpecLinkage: a static, the module's globals, the outcome
    opt_st,                 \* SpecOptimize: a module configuration and what optimize did
    units_st,               \* SpecUnits/SpecStatics: the contexts of the units and what each unit did
    call_st,                \* SpecCallSeq: last_call_llfn and the call-site events so far
    module_st,              \* SpecModule: module_codegen of one unit, step by step
    readjust_st             \* SpecReadjust: a descriptor and what readjust_fn_abi returned

vars == <<cast, cast_ret, fn_abi, sig_ret, remapped_integer_args, writes,
          nlower, declared, alloc, threshold, llvals, encoded, attrs, attached,
          reg_st, link_st, opt_st, units_st, call_st, module_st, readjust_st>>

castVars  == <<cast, cast_ret>>
sigVars   == <<fn_abi, sig_ret, remapped_integer_args, writes, nlower, declared>>
constVars == <<alloc, threshold, llvals, encoded>>
attrVars  == <<attrs, attached>>
auxVars   == <<reg_st, link_st, opt_st, units_st, call_st, module_st, readjust_st>>

\* the value of a variable that the specification at hand does not use
Idle == [op |-> "none"]

\* the variables of auxVars other than own are idle / stay as they are
InitAuxExcept(own) ==
    /\ IF own = "reg_st" THEN TRUE ELSE reg_st = Idle
    /\ IF own = "link_st" THEN TRUE ELSE link_st = Idle
    /\ IF own = "opt_st" THEN TRUE ELSE opt_st = Idle
    /\ IF own = "units_st" THEN TRUE ELSE units_st = Idle
    /\ IF own = "call_st" THEN TRUE ELSE call_st = Idle
    /\ IF own = "module_st" THEN TRUE ELSE module_st = Idle
    /\ IF own = "readjust_st" THEN TRUE ELSE readjust_st = Idle

UnchangedAuxExcept(own) ==
    /\ IF own = "reg_st" THEN TRUE ELSE UNCHANGED reg_st
    /\ IF own = "link_st" THEN TRUE ELSE UNCHANGED link_st
    /\ IF own = "opt_st" THEN TRUE ELSE UNCHANGED opt_st
    /\ IF own = "units_st" THEN TRUE ELSE UNCHANGED units_st
    /\ IF own = "call_st" THEN TRUE ELSE UNCHANGED call_st
    /\ IF own = "module_st" THEN TRUE ELSE UNCHANGED module_st
    /\ IF own = "readjust_st" THEN TRUE ELSE UNCHANGED readjust_st

(***************************************************************************)
(* Bounds                                                                  *)
(***************************************************************************)
\* slots of CastTarget.prefix that are enumerated
PrefixLen == 2
\* largest rest.total, in bytes
MaxRestTotal == 9
\* most arguments of a descriptor
MaxArgs == 2
\* most signature lowerings in one unit
MaxLowerings == 2
\* longest memory image, in bytes
MaxLen == 17
\* most relocations of a memory image
MaxRelocs == 2
\* most encode calls in one unit
MaxEncodes == 3
\* largest register chunk, in bytes
MaxRegSize == 32
\* most configured pass names
MaxPasses == 3
\* most operations of one unit when two units run together
MaxUnitOps == 2
\* most call-site events of one builder
MaxCalls == 3
\* most static_addr_of calls of one unit
MaxStaticCalls == 3
\* most mono items of one unit
MaxItems == 3

(***************************************************************************)
(* Concrete types.  Every type is a record of the same three fields so     *)
(* that any two types compare; LLVM uniques types structurally, so type    *)
(* identity is record equality.                                            *)
(***************************************************************************)
type_void == [kind |-> "void", n |-> 0, elems |-> <<>>]

type_ix(bits) == [kind |-> "int", n |-> bits, elems |-> <<>>]

type_i8 == type_ix(8)

type_f32 == [kind |-> "float", n |-> 32, elems |-> <<>>]

type_f64 == [kind |-> "float", n |-> 64, elems |-> <<>>]

type_vector(elem, len) == [kind |-> "vector", n |-> len, elems |-> <<elem>>]

type_array(elem, len) == [kind |-> "array", n |-> len, elems |-> <<elem>>]

type_struct(fields) == [kind |-> "struct", n |-> Len(fields), elems |-> fields]

type_ptr_to(ty) == [kind |-> "ptr", n |-> 0, elems |-> <<ty>>]

type_func(args, ret) == [kind |-> "func", n |-> 0, elems |-> <<ret>> \o args]

type_variadic_func(args, ret) == [kind |-> "func", n |-> 1, elems |-> <<ret>> \o args]

\* dl.pointer_size.bytes() of the 64-bit target
PointerSize == 8

RECURSIVE SumSizes(_, _)
RECURSIVE SizeOf(_)
\* byte size of a type as the sum of its element sizes (no padding)
SizeOf(ty) ==
    CASE ty.kind = "int"    -> ty.n \div 8
      [] ty.kind = "float"  -> ty.n \div 8
      [] ty.kind = "vector" -> ty.n * SizeOf(ty.elems[1])
      [] ty.kind = "array"  -> ty.n * SizeOf(ty.elems[1])
      [] ty.kind = "struct" -> SumSizes(ty.elems, 1)
      [] ty.kind = "ptr"    -> PointerSize
      [] OTHER              -> 0

SumSizes(fields, i) ==
    IF i > Len(fields) THEN 0 ELSE SizeOf(fields[i]) + SumSizes(fields, i + 1)

(***************************************************************************)
(* ArgAttributes (abi.rs 74-174).  An attribute set is                     *)
(*   [regular, pointee_size, pointee_align, arg_ext]                       *)
(* with regular a set of flags, pointee_size in bytes, pointee_align an    *)
(* Option.  What an entry point attaches is the sequence of its calls,     *)
(* each [attr, n, place].                                                  *)
(***************************************************************************)
ArgAttribute == {"NoAlias", "NoCapture", "NonNull", "ReadOnly", "InReg"}

\* lines 74-93: the flags of the set, in the order the macro tests them
for_each_kind(flags) ==
    SelectSeq(<<"NoAlias", "NoCapture", "NonNull", "ReadOnly", "InReg">>,
              LAMBDA kind : kind \in flags)

Attr(attr, n, place) == [attr |-> attr, n |-> n, place |-> place]

MutWithoutNonNull(regular) == regular

\* lines 115 and 152: regular -= ArgAttribute::NonNull
WithoutNonNull(regular) == regular \ {"NonNull"}

\* lines 106-133
apply_attrs_to_llfn(a, idx) ==
    LET deref   == a.pointee_size
        regular == IF deref # 0 THEN WithoutNonNull(a.regular) ELSE a.regular
        kinds   == for_each_kind(regular)
    IN  (IF deref # 0
         THEN IF "NonNull" \in a.regular
              THEN <<Attr("Dereferenceable", deref, idx)>>
              ELSE <<Attr("DereferenceableOrNull", deref, idx)>>
         ELSE <<>>)
        \o (IF a.pointee_align.some
            THEN <<Attr("Alignment", a.pointee_align.bytes, idx)>> ELSE <<>>)
        \o [i \in 1..Len(kinds) |-> Attr(kinds[i], 0, idx)]
        \o (CASE a.arg_ext = "None" -> <<>>
              [] a.arg_ext = "Zext" -> <<Attr("ZExt", 0, idx)>>
              [] a.arg_ext = "Sext" -> <<Attr("SExt", 0, idx)>>)

\* lines 135-174
apply_attrs_to_callsite(a, idx) ==
    LET deref   == a.pointee_size
        regular == IF deref # 0 THEN WithoutNonNull(a.regular) ELSE a.regular
        kinds   == for_each_kind(regular)
    IN  (IF deref # 0
         THEN IF "NonNull" \in a.regular
              THEN <<Attr("Dereferenceable", deref, idx)>>
              ELSE <<Attr("DereferenceableOrNull", deref, idx)>>
         ELSE <<>>)
        \o (IF a.pointee_align.some
            THEN <<Attr("Alignment", a.pointee_align.bytes, idx)>> ELSE <<>>)
        \o [i \in 1..Len(kinds) |-> Attr(kinds[i], 0, idx)]
        \o (CASE a.arg_ext = "None" -> <<>>
              [] a.arg_ext = "Zext" -> <<Attr("ZExt", 0, idx)>>
              [] a.arg_ext = "Sext" -> <<Attr("SExt", 0, idx)>>)

(***************************************************************************)
(* SpecAttrs: one attribute set drawn from bounded sets is applied to a    *)
(* function definition and to a call site, in either order.                *)
(***************************************************************************)
ArgAttributesSets ==
    [regular : SUBSET ArgAttribute,
     pointee_size : {0, 8},
     pointee_align : {[some |-> FALSE, bytes |-> 0], [some |-> TRUE, bytes |-> 4]},
     arg_ext : {"None", "Zext", "Sext"}]

AttributePlaces == {"ReturnValue", "Argument(0)"}

NoAttrs ==
    [set |-> [regular |-> {}, pointee_size |-> 0,
              pointee_align |-> [some |-> FALSE, bytes |-> 0], arg_ext |-> "None"],
     idx |-> "ReturnValue"]

NoAttached ==
    [llfn_done |-> FALSE, llfn |-> <<>>, callsite_done |-> FALSE, callsite |-> <<>>]

InitAttrVars ==
    /\ attrs = NoAttrs
    /\ attached = NoAttached

ApplyAttrsToLlfn ==
    /\ ~attached.llfn_done
    /\ attached' = [attached EXCEPT !.llfn_done = TRUE,
                                    !.llfn = apply_attrs_to_llfn(attrs.set, attrs.idx)]
    /\ UNCHANGED <<attrs, castVars, sigVars, constVars, auxVars>>

ApplyAttrsToCallsite ==
    /\ ~attached.callsite_done
    /\ attached' = [attached EXCEPT !.callsite_done = TRUE,
                                    !.callsite = apply_attrs_to_callsite(attrs.set, attrs.idx)]
    /\ UNCHANGED <<attrs, castVars, sigVars, constVars, auxVars>>

(***************************************************************************)
(* Reg::llvm_type (abi.rs 181-193).  A Reg is [kind, size] with size in    *)
(* bytes.  The result is [abort, ty]: abort is the bug! of line 188.       *)
(***************************************************************************)
RegKinds == {"Integer", "Float", "Vector"}

Returned(ty) == [abort |-> FALSE, ty |-> ty]

Aborted == [abort |-> TRUE, ty |-> type_void]

MutRegLlvmType(reg) ==
    CASE reg.kind = "Integer" -> Returned(type_ix(reg.size * 8))
      [] reg.kind = "Float"   ->
            IF reg.size * 8 = 32 THEN Returned(type_f32) ELSE Returned(type_f64)
      [] reg.kind = "Vector"  -> Returned(type_vector(type_i8, reg.size))

Reg_llvm_type(reg) ==
    CASE reg.kind = "Integer" -> Returned(type_ix(reg.size * 8))
      [] reg.kind = "Float"   ->
            IF reg.size * 8 = 32 THEN Returned(type_f32)
            ELSE IF reg.size * 8 = 64 THEN Returned(type_f64)
            ELSE Aborted
      [] reg.kind = "Vector"  -> Returned(type_vector(type_i8, reg.size))

(***************************************************************************)
(* CastTarget::llvm_type (abi.rs 195-244).                                 *)
(* A CastTarget is [prefix, prefix_chunk_size, rest |-> [unit, total]];    *)
(* prefix is a sequence over RegKinds \cup {"None"}.                       *)
(***************************************************************************)
MutRestCount(c) == 0

rest_count(c) ==
    IF c.rest.unit.size = 0 THEN 0 ELSE c.rest.total \div c.rest.unit.size

MutRemBytes(c) == 0

rem_bytes(c) ==
    IF c.rest.unit.size = 0 THEN 0 ELSE c.rest.total % c.rest.unit.size

NoPrefix(c) == \A i \in 1..Len(c.prefix) : c.prefix[i] = "None"

\* the chunks of c.prefix that are present, as Regs, in order
RECURSIVE PrefixRegs(_, _)
PrefixRegs(c, i) ==
    IF i > Len(c.prefix) THEN <<>>
    ELSE (IF c.prefix[i] = "None" THEN <<>>
          ELSE <<[kind |-> c.prefix[i], size |-> c.prefix_chunk_size]>>)
         \o PrefixRegs(c, i + 1)

Repeat(x, k) == [i \in 1..k |-> x]

Range(f) == {f[x] : x \in DOMAIN f}

MutRemainderIsInteger(c) == TRUE

\* line 239: assert_eq!(self.rest.unit.kind, RegKind::Integer)
RemainderIsInteger(c) == c.rest.unit.kind = "Integer"

CastTarget_llvm_type(c) ==
    LET rest_ll_unit == Reg_llvm_type(c.rest.unit)
        pregs        == PrefixRegs(c, 1)
        ptys         == [i \in 1..Len(pregs) |-> Reg_llvm_type(pregs[i])]
        args         == [i \in 1..Len(pregs) |-> ptys[i].ty]
                        \o Repeat(rest_ll_unit.ty, rest_count(c))
    IN  IF rest_ll_unit.abort THEN Aborted
        ELSE IF NoPrefix(c) /\ c.rest.total <= c.rest.unit.size
             THEN Returned(rest_ll_unit.ty)
        ELSE IF NoPrefix(c) /\ rem_bytes(c) = 0
             THEN Returned(type_array(rest_ll_unit.ty, rest_count(c)))
        ELSE IF \E i \in 1..Len(pregs) : ptys[i].abort THEN Aborted
        ELSE IF rem_bytes(c) # 0
             THEN IF ~RemainderIsInteger(c) THEN Aborted
                  ELSE Returned(type_struct(args \o <<type_ix(rem_bytes(c) * 8)>>))
        ELSE Returned(type_struct(args))

(***************************************************************************)
(* The cast targets that are lowered: every prefix of PrefixLen optional    *)
(* chunks, both chunk sizes, every unit and every total up to MaxRestTotal.*)
(***************************************************************************)
RegSizes == {0, 1, 2, 4, 8}

OptRegKinds == RegKinds \cup {"None"}

Prefixes == [1..PrefixLen -> OptRegKinds]

CastTargets ==
    [prefix : Prefixes,
     prefix_chunk_size : {4, 8},
     rest : [unit : [kind : RegKinds, size : RegSizes], total : 0..MaxRestTotal]]

NoCast ==
    [prefix |-> [i \in 1..PrefixLen |-> "None"], prefix_chunk_size |-> 4,
     rest |-> [unit |-> [kind |-> "Integer", size |-> 0], total |-> 0]]

NoCastRet == [status |-> "none", ty |-> type_void]

\* the declared total of a CastTarget: present prefix chunks + rest.total
DeclaredTotal(c) == Len(PrefixRegs(c, 1)) * c.prefix_chunk_size + c.rest.total

(***************************************************************************)
(* Function descriptors.                                                   *)
(*   PassMode  [kind, extra, on_stack, cast]   extra: extra_attrs is Some  *)
(*   ArgAbi    [mode, pad, layout]             pad: Option<Reg>            *)
(*   layout    what the layout engine answers for the argument's type:     *)
(*             imm   immediate_llvm_type                                   *)
(*             e0,e1 scalar_pair_element_llvm_type(0|1)                    *)
(*             mem   llvm_type (memory_ty, abi.rs 577-579)                 *)
(*             meta  element 1 of the fat pointer to the type              *)
(*             abi   layout.abi: [kind, value, is_bool, is_always_valid];  *)
(*                   value, is_bool() and is_always_valid() of the scalar  *)
(*                   when kind is "Scalar"                                 *)
(*   FnAbi     [args, ret, c_variadic]                                     *)
(***************************************************************************)
Mode(k, extra, on_stack, c) ==
    [kind |-> k, extra |-> extra, on_stack |-> on_stack, cast |-> c]

Ignore == Mode("Ignore", FALSE, FALSE, NoCast)

Direct == Mode("Direct", FALSE, FALSE, NoCast)

Pair == Mode("Pair", FALSE, FALSE, NoCast)

Indirect(extra, on_stack) == Mode("Indirect", extra, on_stack, NoCast)

Cast(c) == Mode("Cast", FALSE, FALSE, c)

NoPad == [some |-> FALSE, reg |-> [kind |-> "Integer", size |-> 0]]

SomePad(reg) == [some |-> TRUE, reg |-> reg]

\* abi::Abi::Scalar(scalar)
AbiScalar(value, is_bool, is_always_valid) ==
    [kind |-> "Scalar", value |-> value, is_bool |-> is_bool,
     is_always_valid |-> is_always_valid]

\* the other variants of abi::Abi
AbiOther(kind) ==
    [kind |-> kind, value |-> "none", is_bool |-> FALSE, is_always_valid |-> TRUE]

\* layout.abi of a plain value of type t whose every bit pattern is valid
AbiOf(t) ==
    CASE t.kind = "int"    -> AbiScalar("Int", FALSE, TRUE)
      [] t.kind = "float"  -> AbiScalar("Float", FALSE, TRUE)
      [] t.kind = "ptr"    -> AbiScalar("Pointer", FALSE, TRUE)
      [] t.kind = "vector" -> AbiOther("Vector")
      [] OTHER             -> AbiOther("Aggregate")

ScalarLayout(t) ==
    [imm |-> t, e0 |-> t, e1 |-> t, mem |-> t, meta |-> type_ix(64),
     abi |-> AbiOf(t)]

PairLayout(a, b) ==
    [imm |-> type_struct(<<a, b>>), e0 |-> a, e1 |-> b,
     mem |-> type_struct(<<a, b>>), meta |-> type_ix(64),
     abi |-> AbiOther("ScalarPair")]

\* the layout of a scalar of type t with the given layout.abi
LayoutWithAbi(t, abi) == [ScalarLayout(t) EXCEPT !.abi = abi]

ArgAbi(mode, pad, layout) == [mode |-> mode, pad |-> pad, layout |-> layout]

memory_ty(arg) == arg.layout.mem

(***************************************************************************)
(* int_replace::get_transformed_type: the type-remapping classifier.       *)
(* Integers wider than 64 bits are not representable on the target and     *)
(* are replaced by a vector of 64-bit integers (abi.rs 457-459: "bitcast   *)
(* return types like <2 x i64> to i128").                                  *)
(***************************************************************************)
get_transformed_type(ty) ==
    IF ty.kind = "int" /\ ty.n > 64
    THEN [ty |-> type_vector(type_ix(64), ty.n \div 64), changed |-> TRUE]
    ELSE [ty |-> ty, changed |-> FALSE]

(***************************************************************************)
(* FnAbi::llvm_type (abi.rs 276-368).                                      *)
(* A slot is one pushed element of llargument_tys (or the return type):    *)
(*   ty          the type that was pushed                                  *)
(*   raw         the type computed before any classification               *)
(*   classified  get_transformed_type was called on raw                    *)
(*   arg         index of the argument the slot belongs to, 0 = return     *)
(*   role        "sret" | "pad" | "val"                                    *)
(***************************************************************************)
RawSlot(ty, a, role) ==
    [ty |-> ty, raw |-> ty, classified |-> FALSE, arg |-> a, role |-> role]

ClassifiedSlot(raw, a, role) ==
    [ty |-> get_transformed_type(raw).ty, raw |-> raw, classified |-> TRUE,
     arg |-> a, role |-> role]

None == [some |-> FALSE, ty |-> type_void]

Some(ty) == [some |-> TRUE, ty |-> ty]

(***************************************************************************)
(* The lowering state of llvm_type, threaded through the function:         *)
(*   abort        a chunk or cast lowering hit bug! / assert               *)
(*   idx          the local idx                                            *)
(*   slots        llargument_tys, as slots                                 *)
(*   transformed  transformed_types                                        *)
(*   ret          the slot of llreturn_ty                                  *)
(***************************************************************************)
\* lines 294-303 with the result c of lowering the return's cast target
LowerRetOf(ret, c) ==
    LET k  == ret.mode.kind
        llreturn_ty ==
            CASE k = "Ignore"   -> type_void
              [] k = "Direct"   -> ret.layout.imm
              [] k = "Pair"     -> ret.layout.imm
              [] k = "Cast"     -> c.ty
              [] k = "Indirect" -> type_void
    IN  [abort  |-> k = "Cast" /\ c.abort,
         idx    |-> IF k = "Indirect" THEN 1 ELSE 0,
         slots  |-> IF k = "Indirect"
                    THEN <<RawSlot(type_ptr_to(memory_ty(ret)), 0, "sret")>>
                    ELSE <<>>,
         transformed |-> <<>>,
         ret    |-> ClassifiedSlot(llreturn_ty, 0, "val")]

MutLowerRet(ret) ==
    [LowerRetOf(ret, CastTarget_llvm_type(ret.mode.cast)) EXCEPT !.slots = <<>>]

\* lines 284-312: the state when the loop over the arguments is entered
LowerRet(ret) == LowerRetOf(ret, CastTarget_llvm_type(ret.mode.cast))

MutPadSlots(arg, a) == <<>>

MutStoreFnArg(arg, llfnty, idx) == [idx |-> idx + 1, vals |-> <<>>, operand |-> "store"]

\* lines 316-319: the slot of a declared padding register
PadSlots(arg, a) ==
    IF arg.pad.some THEN <<RawSlot(Reg_llvm_type(arg.pad.reg).ty, a, "pad")>> ELSE <<>>

\* lines 315-354 with the result c of lowering the argument's cast target:
\* one iteration of the loop over self.args, entered in state st
LowerArgOf(arg, a, st, c) ==
    LET k     == arg.mode.kind
        idx1  == IF arg.pad.some THEN st.idx + 1 ELSE st.idx
        slots == st.slots \o PadSlots(arg, a)
        llarg_ty ==
            CASE k = "Direct"   -> arg.layout.imm
              [] k = "Cast"     -> c.ty
              [] k = "Indirect" -> type_ptr_to(memory_ty(arg))
              [] OTHER          -> type_void
        abort == \/ st.abort
                 \/ arg.pad.some /\ Reg_llvm_type(arg.pad.reg).abort
                 \/ k = "Cast" /\ c.abort
    IN  CASE k = "Ignore" ->
               [st EXCEPT !.abort = abort, !.idx = idx1, !.slots = slots]
          [] k = "Pair" ->
               [st EXCEPT !.abort = abort, !.idx = idx1 + 2,
                          !.slots = slots \o <<RawSlot(arg.layout.e0, a, "val"),
                                               RawSlot(arg.layout.e1, a, "val")>>]
          [] k = "Indirect" /\ arg.mode.extra ->
               [st EXCEPT !.abort = abort, !.idx = idx1 + 2,
                          !.slots = slots
                              \o <<RawSlot(type_ptr_to(memory_ty(arg)), a, "val"),
                                   RawSlot(arg.layout.meta, a, "val")>>]
          [] OTHER ->
               [st EXCEPT !.abort = abort, !.idx = idx1 + 1,
                          !.slots = slots \o <<ClassifiedSlot(llarg_ty, a, "val")>>,
                          !.transformed =
                              IF get_transformed_type(llarg_ty).changed
                              THEN st.transformed \o <<<<idx1, llarg_ty>>>>
                              ELSE st.transformed]

MutLowerArg(arg, a, st) ==
    [LowerArgOf(arg, a, st, CastTarget_llvm_type(arg.mode.cast))
        EXCEPT !.transformed = <<>>]

LowerArg(arg, a, st) == LowerArgOf(arg, a, st, CastTarget_llvm_type(arg.mode.cast))

\* lines 314-355: the loop, from argument a on
RECURSIVE LowerArgs(_, _, _)
LowerArgs(args, a, st) ==
    IF a > Len(args) THEN st
    ELSE LowerArgs(args, a + 1, LowerArg(args[a], a, st))

\* lines 357-367: the function type, and the record and whether it is inserted
Finish(abi, st) ==
    LET llargument_tys == [i \in 1..Len(st.slots) |-> st.slots[i].ty]
        old_ret_ty == IF get_transformed_type(st.ret.raw).changed
                      THEN Some(st.ret.raw) ELSE None
    IN  [abort  |-> st.abort,
         ty     |-> IF abi.c_variadic
                    THEN type_variadic_func(llargument_tys, st.ret.ty)
                    ELSE type_func(llargument_tys, st.ret.ty),
         slots  |-> st.slots,
         ret    |-> st.ret,
         insert |-> st.transformed # <<>> \/ old_ret_ty.some,
         record |-> [old_ret_ty |-> old_ret_ty, transformed_types |-> st.transformed]]

\* the whole of llvm_type: [abort, ty, slots, ret, insert, record]
FnAbi_llvm_type(abi) == Finish(abi, LowerArgs(abi.args, 1, LowerRet(abi.ret)))

(***************************************************************************)
(* FnAbi::apply_attrs_llfn (abi.rs 379-454) and FnAbi::apply_attrs_callsite *)
(* (abi.rs 456-533): which argument position receives which attribute set. *)
(* An application is [place, arg, what]: place is the argument position,   *)
(* -1 for the return value; what names the attribute set of argument arg   *)
(* ("attrs", "extra_attrs", "a", "b", or "new" for ArgAttributes::new()).  *)
(***************************************************************************)
ReturnValue == 0 - 1

Applied(place, a, what) == [place |-> place, arg |-> a, what |-> what]

MutApplyRet(ret) ==
    IF ret.mode.kind = "Direct"
    THEN [abort |-> FALSE, i |-> 0, applied |-> <<Applied(ReturnValue, 0, "attrs")>>]
    ELSE [abort |-> ret.mode.kind = "Indirect" /\ ret.mode.on_stack, i |-> 0,
          applied |-> <<>>]

\* the match on self.ret.mode (396-410 and 471-484), both sites alike:
\* the state [abort, i, applied] when the loop over the arguments is entered
ApplyRet(ret) ==
    LET k == ret.mode.kind
    IN  CASE k = "Direct" ->
               [abort |-> FALSE, i |-> 0,
                applied |-> <<Applied(ReturnValue, 0, "attrs")>>]
          [] k = "Indirect" ->
               [abort |-> ret.mode.on_stack, i |-> 1,
                applied |-> <<Applied(0, 0, "attrs")>>]
          [] OTHER ->
               [abort |-> FALSE, i |-> 0, applied |-> <<>>]

\* one iteration of the loop over self.args (411-453 and 495-532), entered
\* in state st; only the definition site asserts !on_stack for Indirect
\* with extra_attrs
ApplyArg(arg, a, st, site) ==
    LET k   == arg.mode.kind
        i1  == IF arg.pad.some THEN st.i + 1 ELSE st.i
        app == IF arg.pad.some THEN st.applied \o <<Applied(st.i, a, "new")>>
               ELSE st.applied
    IN  CASE k = "Ignore" ->
               [st EXCEPT !.i = i1, !.applied = app]
          [] k = "Direct" ->
               [st EXCEPT !.i = i1 + 1,
                          !.applied = app \o <<Applied(i1, a, "attrs")>>]
          [] k = "Indirect" /\ ~arg.mode.extra ->
               [st EXCEPT !.i = i1 + 1,
                          !.applied = app \o <<Applied(i1, a, "attrs")>>]
          [] k = "Indirect" /\ arg.mode.extra ->
               [st EXCEPT !.abort = st.abort \/ (site = "llfn" /\ arg.mode.on_stack),
                          !.i = i1 + 2,
                          !.applied = app \o <<Applied(i1, a, "attrs"),
                                               Applied(i1 + 1, a, "extra_attrs")>>]
          [] k = "Pair" ->
               [st EXCEPT !.i = i1 + 2,
                          !.applied = app \o <<Applied(i1, a, "a"),
                                               Applied(i1 + 1, a, "b")>>]
          [] k = "Cast" ->
               [st EXCEPT !.i = i1 + 1,
                          !.applied = app \o <<Applied(i1, a, "new")>>]

RECURSIVE ApplyArgs(_, _, _, _)
ApplyArgs(args, a, st, site) ==
    IF a > Len(args) THEN st
    ELSE ApplyArgs(args, a + 1, ApplyArg(args[a], a, st, site), site)

\* [abort, i, applied] at the end, the position of the StructRet marker and
\* whether bx.range_metadata was called
WithSret(st, sret, range) ==
    [abort |-> st.abort, applied |-> st.applied, sret |-> sret, range |-> range]

apply_attrs_llfn(abi) ==
    WithSret(ApplyArgs(abi.args, 1, ApplyRet(abi.ret), "llfn"),
             IF abi.ret.mode.kind = "Indirect" THEN 0 ELSE ReturnValue,
             FALSE)

MutRangeMetadata(ret) ==
    ret.layout.abi.kind = "Scalar" /\ ~ret.layout.abi.is_always_valid

\* lines 485-494: the condition under which bx.range_metadata is called
RangeMetadata(ret) ==
    /\ ret.layout.abi.kind = "Scalar"
    /\ ret.layout.abi.value = "Int"
    /\ ~ret.layout.abi.is_bool
    /\ ~ret.layout.abi.is_always_valid

\* the assert of line 480 is passed before line 485 is reached
apply_attrs_callsite(abi) ==
    WithSret(ApplyArgs(abi.args, 1, ApplyRet(abi.ret), "callsite"), ReturnValue,
             ~ApplyRet(abi.ret).abort /\ RangeMetadata(abi.ret))

(***************************************************************************)
(* Function entry.  A value is [index, ty, transmuted]: parameter index    *)
(* of the function, seen at type ty, through transmute_llval or not.       *)
(***************************************************************************)
\* llvm::get_param(llfn, index): the raw parameter, at its concrete type
RawParam(llfnty, index) ==
    [index |-> index, ty |-> llfnty.elems[index + 2], transmuted |-> FALSE]

NumParams(llfnty) == Len(llfnty.elems) - 1

\* Builder::get_param (abi.rs 541-555) against the table `map`
get_param(map, llfnty, index) ==
    LET val == RawParam(llfnty, index)
    IN  IF llfnty \in DOMAIN map
        THEN LET key  == map[llfnty].transformed_types
                 hits == {j \in 1..Len(key) : key[j][1] = index}
             IN  IF hits # {}
                 THEN LET j == CHOOSE h \in hits : \A g \in hits : h <= g
                      IN  [index |-> index, ty |-> key[j][2], transmuted |-> TRUE]
                 ELSE val
        ELSE val

\* ArgAbi::store_fn_arg (abi.rs 629-663): the values taken by next() and
\* the index left behind
store_fn_arg(arg, llfnty, idx) ==
    LET k == arg.mode.kind
    IN  CASE k = "Ignore" ->
               [idx |-> idx, vals |-> <<>>, operand |-> "none"]
          [] k = "Pair" ->
               [idx |-> idx + 2, operand |-> "Pair",
                vals |-> <<RawParam(llfnty, idx), RawParam(llfnty, idx + 1)>>]
          [] k = "Indirect" /\ arg.mode.extra ->
               [idx |-> idx + 2, operand |-> "Ref",
                vals |-> <<RawParam(llfnty, idx), RawParam(llfnty, idx + 1)>>]
          [] OTHER ->
               [idx |-> idx + 1, operand |-> "store",
                vals |-> <<RawParam(llfnty, idx)>>]

(***************************************************************************)
(* Outcome of the last descriptor operation.                               *)
(***************************************************************************)
NoFnAbi ==
    [args |-> <<>>, ret |-> ArgAbi(Ignore, NoPad, ScalarLayout(type_void)),
     c_variadic |-> FALSE]

NoSigRet ==
    [op |-> "none", status |-> "none", ty |-> type_void, slots |-> <<>>,
     ret |-> RawSlot(type_void, 0, "val"), applied |-> <<>>, sret |-> ReturnValue,
     arg |-> 0, idx |-> 0, vals |-> <<>>, operand |-> "none", range |-> FALSE]

Status(abort) == IF abort THEN "abort" ELSE "ok"

EmptyMap == [t \in {} |-> 0]

\* HashMap::insert: the entry for key becomes val, whatever it was
Insert(map, key, val) ==
    [t \in DOMAIN map \cup {key} |-> IF t = key THEN val ELSE map[t]]

CountWrite(w, key) ==
    [t \in DOMAIN w \cup {key} |->
        IF t = key THEN (IF key \in DOMAIN w THEN w[key] + 1 ELSE 1) ELSE w[t]]

\* FnAbi::llvm_type as a step, r being FnAbi_llvm_type(abi): the result, and
\* the write of lines 362-366
LlvmTypeStep(abi, r) ==
    /\ fn_abi' = abi
    /\ sig_ret' = [NoSigRet EXCEPT !.op = "llvm_type", !.status = Status(r.abort),
                                   !.ty = r.ty, !.slots = r.slots, !.ret = r.ret]
    /\ IF ~r.abort /\ r.insert
       THEN /\ remapped_integer_args' = Insert(remapped_integer_args, r.ty, r.record)
            /\ writes' = CountWrite(writes, r.ty)
       ELSE UNCHANGED <<remapped_integer_args, writes>>
    /\ nlower' = nlower + 1
    /\ declared' = IF r.abort THEN declared ELSE declared \cup {abi}

InitSigVars ==
    /\ sig_ret = NoSigRet
    /\ remapped_integer_args = EmptyMap
    /\ writes = EmptyMap
    /\ nlower = 0
    /\ declared = {}

(***************************************************************************)
(* Memory images and const_alloc_to_llvm (consts.rs 75-184).               *)
(*   alloc  [bytes, init_mask, relocations]; offsets count from 0, the     *)
(*          sequences are indexed from 1                                   *)
(*   field  [kind, len, bytes, alloc_id, addrspace]                        *)
(*          kind "bytes"  cx.const_bytes(bytes)                            *)
(*          kind "undef"  cx.const_undef([len x i8])                       *)
(*          kind "ptr"    pointer into alloc_id; bytes are the image's     *)
(*                        bytes of the slot, which hold the pointer offset *)
(***************************************************************************)
\* tcx.global_alloc(alloc_id) (consts.rs 157)
global_alloc(alloc_id) ==
    CASE alloc_id = 1 -> "Function"
      [] alloc_id = 2 -> "Static"
      [] OTHER        -> "Memory"

\* alloc.inspect_with_uninit_and_ptr_outside_interpreter(start..end)
inspect(a, start, end) == [i \in 1..(end - start) |-> a.bytes[start + i]]

const_bytes(bytes) ==
    [kind |-> "bytes", len |-> Len(bytes), bytes |-> bytes, alloc_id |-> 0,
     addrspace |-> "none"]

const_undef(len) ==
    [kind |-> "undef", len |-> len, bytes |-> <<>>, alloc_id |-> 0,
     addrspace |-> "none"]

\* first offset in start+1..end whose definedness differs from is_init, or end
RECURSIVE RunEnd(_, _, _, _)
RunEnd(mask, is_init, from, end) ==
    IF from >= end \/ mask[from + 1] # is_init THEN from
    ELSE RunEnd(mask, is_init, from + 1, end)

\* InitMask::range_as_init_chunks(start, end) (called at consts.rs 89-91):
\* the maximal defined / undefined runs of start..end in ascending order,
\* and no chunk at all when the range is empty
RECURSIVE range_as_init_chunks(_, _, _)
range_as_init_chunks(mask, start, end) ==
    IF start >= end THEN <<>>
    ELSE LET is_init == mask[start + 1]
             e       == RunEnd(mask, is_init, start + 1, end)
         IN  <<[init |-> is_init, start |-> start, end |-> e]>>
             \o range_as_init_chunks(mask, e, end)

MutChunkToLlval(a, chunk) ==
    IF chunk.init THEN const_bytes(inspect(a, 0, chunk.end - chunk.start))
    ELSE const_undef(chunk.end - chunk.start)

\* consts.rs 93-103
chunk_to_llval(a, chunk) ==
    IF chunk.init THEN const_bytes(inspect(a, chunk.start, chunk.end))
    ELSE const_undef(chunk.end - chunk.start)

MutAllowPartiallyUninit(thr, start, end) == thr.some

\* consts.rs 107-115
allow_partially_uninit(thr, start, end) == thr.some /\ (end - start) <= thr.max

\* append_chunks_of_init_and_uninit_bytes (consts.rs 83-134): the fields
\* appended for the range start..end
append_chunks_of_init_and_uninit_bytes(a, thr, start, end) ==
    LET chunks == range_as_init_chunks(a.init_mask, start, end)
    IN  IF allow_partially_uninit(thr, start, end)
        THEN [i \in 1..Len(chunks) |-> chunk_to_llval(a, chunks[i])]
        ELSE IF Len(chunks) = 1
             THEN <<chunk_to_llval(a, chunks[1])>>
             ELSE <<const_bytes(inspect(a, start, end))>>

MutRelocField(a, reloc) ==
    [kind |-> "ptr", len |-> PointerSize,
     bytes |-> inspect(a, reloc.offset, reloc.offset + PointerSize),
     alloc_id |-> reloc.alloc_id, addrspace |-> "DATA"]

\* consts.rs 147-172: the pointer field of one relocation
RelocField(a, reloc) ==
    [kind |-> "ptr", len |-> PointerSize,
     bytes |-> inspect(a, reloc.offset, reloc.offset + PointerSize),
     alloc_id |-> reloc.alloc_id,
     addrspace |-> IF global_alloc(reloc.alloc_id) = "Function"
                   THEN "instruction" ELSE "DATA"]

MutNextOffset(offset) == offset

\* consts.rs 173
NextOffset(offset) == offset + PointerSize

\* one step of the encoding: the splitter called on start..end, or the
\* pointer of the relocation at start, with the fields it appended
SpanPiece(a, thr, start, end) ==
    [kind |-> "span", start |-> start, end |-> end,
     fields |-> append_chunks_of_init_and_uninit_bytes(a, thr, start, end)]

RelocPiece(a, reloc) ==
    [kind |-> "reloc", start |-> reloc.offset, end |-> reloc.offset + PointerSize,
     fields |-> <<RelocField(a, reloc)>>]

\* consts.rs 136-181: the loop from relocation r on, and the trailing span
RECURSIVE EncodeFrom(_, _, _, _)
EncodeFrom(a, thr, r, next_offset) ==
    IF r > Len(a.relocations)
    THEN IF Len(a.bytes) >= next_offset
         THEN <<SpanPiece(a, thr, next_offset, Len(a.bytes))>>
         ELSE <<>>
    ELSE LET offset == a.relocations[r].offset
         IN  (IF offset > next_offset
              THEN <<SpanPiece(a, thr, next_offset, offset)>>
              ELSE <<>>)
             \o <<RelocPiece(a, a.relocations[r])>>
             \o EncodeFrom(a, thr, r + 1, NextOffset(offset))

\* llvals: the fields of the pieces, in order
RECURSIVE Flatten(_, _)
Flatten(pieces, i) ==
    IF i > Len(pieces) THEN <<>> ELSE pieces[i].fields \o Flatten(pieces, i + 1)

MutNewLlvals(prev) == prev

\* consts.rs 77: llvals is a new vector in every call, whatever the vector
\* of the call before (prev) held
NewLlvals(prev) == <<>>

\* the fields of the packed struct that const_alloc_to_llvm returns, prev
\* being the fields of the call before
const_alloc_to_llvm(prev, a, thr) ==
    NewLlvals(prev) \o Flatten(EncodeFrom(a, thr, 1, 0), 1)

(***************************************************************************)
(* SpecConst: one memory image drawn from bounded sets is encoded.         *)
(***************************************************************************)
\* every offset holds a different byte value
PatternBytes(len) == [i \in 1..len |-> (i * 37 + 11) % 256]

\* definedness with at most three runs: first up to c1, then the opposite up
\* to c2, then first again
MaskOf(len, first, c1, c2) ==
    [i \in 1..len |-> IF i <= c1 \/ i > c2 THEN first ELSE ~first]

Masks(len) ==
    {MaskOf(len, first, c1, c2) : first \in BOOLEAN, c1 \in 0..len, c2 \in 0..len}

AllocIds == 1..3

\* the relocation lists of an image of len bytes with at most k entries, the
\* first at offset from or later: ascending, pointer-sized, non-overlapping,
\* fully contained
RECURSIVE RelocationLists(_, _, _)
RelocationLists(len, from, k) ==
    {<<>>} \cup
    (IF k = 0 THEN {}
     ELSE UNION {{<<[offset |-> o, alloc_id |-> id]>> \o rest :
                    id \in AllocIds,
                    rest \in RelocationLists(len, o + PointerSize, k - 1)}
                 : o \in from..(len - PointerSize)})

Allocations ==
    UNION {[bytes : {PatternBytes(len)}, init_mask : Masks(len),
            relocations : RelocationLists(len, 0, MaxRelocs)] : len \in 0..MaxLen}

NoThreshold == [some |-> FALSE, max |-> 0]

ThresholdPolicies == {NoThreshold} \cup [some : {TRUE}, max : {0, 4, MaxLen}]

NoAlloc == [bytes |-> <<>>, init_mask |-> <<>>, relocations |-> <<>>]

NoLlvals == [done |-> FALSE, fields |-> <<>>, pieces |-> <<>>]

InitConstVars ==
    /\ alloc = NoAlloc
    /\ threshold = NoThreshold
    /\ llvals = NoLlvals
    /\ encoded = <<>>

InitCastVars ==
    /\ cast = NoCast
    /\ cast_ret = NoCastRet

InitConst ==
    /\ alloc \in Allocations
    /\ threshold \in ThresholdPolicies
    /\ llvals = NoLlvals
    /\ encoded = <<>>
    /\ fn_abi = NoFnAbi
    /\ InitSigVars
    /\ InitAttrVars
    /\ InitAuxExcept("none")
    /\ InitCastVars

Encode ==
    /\ ~llvals.done
    /\ llvals' = [done |-> TRUE,
                  fields |-> const_alloc_to_llvm(llvals.fields, alloc, threshold),
                  pieces |-> EncodeFrom(alloc, threshold, 1, 0)]
    /\ UNCHANGED <<alloc, threshold, encoded, castVars, sigVars, attrVars, auxVars>>

NextConst == Encode

SpecConst == InitConst /\ [][NextConst]_vars

InitAttrs ==
    /\ attrs \in [set : ArgAttributesSets, idx : AttributePlaces]
    /\ attached = NoAttached
    /\ InitAuxExcept("none")
    /\ fn_abi = NoFnAbi
    /\ InitSigVars
    /\ InitCastVars
    /\ InitConstVars

NextAttrs ==
    \/ ApplyAttrsToLlfn
    \/ ApplyAttrsToCallsite

SpecAttrs == InitAttrs /\ [][NextAttrs]_vars

(***************************************************************************)
(* SpecReg: one register chunk drawn from bounded sets is lowered.         *)
(***************************************************************************)
Regs == [kind : RegKinds, size : 0..MaxRegSize]

\* everything but the auxiliary variables is idle / stays as it is
InitMainVars ==
    /\ fn_abi = NoFnAbi
    /\ InitSigVars
    /\ InitAttrVars
    /\ InitCastVars
    /\ InitConstVars

mainVars == <<castVars, sigVars, constVars, attrVars>>

InitReg ==
    /\ reg_st \in [op : {"input"}, reg : Regs, status : {"none"}, ty : {type_void}]
    /\ InitAuxExcept("reg_st")
    /\ InitMainVars

LowerReg ==
    /\ reg_st.op = "input"
    /\ \E r \in {Reg_llvm_type(reg_st.reg)} :
          reg_st' = [reg_st EXCEPT !.op = "llvm_type", !.status = Status(r.abort),
                                   !.ty = r.ty]
    /\ UnchangedAuxExcept("reg_st")
    /\ UNCHANGED mainVars

NextReg == LowerReg

SpecReg == InitReg /\ [][NextReg]_vars

(***************************************************************************)
(* SpecCast: one CastTarget drawn from bounded sets is lowered.            *)
(***************************************************************************)
InitCast ==
    /\ cast \in CastTargets
    /\ cast_ret = NoCastRet
    /\ fn_abi = NoFnAbi
    /\ InitSigVars
    /\ InitAttrVars
    /\ InitAuxExcept("none")
    /\ InitConstVars

LowerCast ==
    /\ cast_ret.status = "none"
    /\ \E r \in {CastTarget_llvm_type(cast)} :
          cast_ret' = [status |-> Status(r.abort), ty |-> r.ty]
    /\ UNCHANGED <<cast, sigVars, constVars, attrVars, auxVars>>

NextCast == LowerCast

SpecCast == InitCast /\ [][NextCast]_vars

(***************************************************************************)
(* SpecEncodeUnit: one unit encodes several memory images one after the    *)
(* other; the threshold is an option of the session.                       *)
(***************************************************************************)
UnitAllocations ==
    [bytes : {PatternBytes(9)},
     init_mask : {MaskOf(9, first, c1, 9) : first \in BOOLEAN, c1 \in {0, 3}},
     relocations : {<<>>,
                    <<[offset |-> 0, alloc_id |-> 1]>>,
                    <<[offset |-> 1, alloc_id |-> 2]>>,
                    <<[offset |-> 1, alloc_id |-> 3]>>}]

InitEncodeUnit ==
    /\ alloc = NoAlloc
    /\ threshold \in {NoThreshold, [some |-> TRUE, max |-> 4]}
    /\ llvals = NoLlvals
    /\ encoded = <<>>
    /\ fn_abi = NoFnAbi
    /\ InitSigVars
    /\ InitAttrVars
    /\ InitAuxExcept("none")
    /\ InitCastVars

UnitEncode ==
    /\ Len(encoded) < MaxEncodes
    /\ \E a \in UnitAllocations :
         \E fields \in {const_alloc_to_llvm(llvals.fields, a, threshold)} :
            /\ alloc' = a
            /\ llvals' = [done |-> TRUE, fields |-> fields,
                          pieces |-> EncodeFrom(a, threshold, 1, 0)]
            /\ encoded' = Append(encoded, [alloc |-> a, fields |-> fields])
    /\ UNCHANGED <<threshold, castVars, sigVars, attrVars, auxVars>>

NextEncodeUnit == UnitEncode

SpecEncodeUnit == InitEncodeUnit /\ [][NextEncodeUnit]_vars

(***************************************************************************)
(* SpecSig: one descriptor drawn from bounded sets is consumed by one of   *)
(* signature lowering, definition-site and call-site attribute application. *)
(***************************************************************************)
i32 == type_ix(32)

i128 == type_ix(128)

v2i64 == type_vector(type_ix(64), 2)

\* Uniform of one 64-bit integer register, 8 bytes: lowers to i64
CastI64 ==
    [prefix |-> [i \in 1..PrefixLen |-> "None"], prefix_chunk_size |-> 8,
     rest |-> [unit |-> [kind |-> "Integer", size |-> 8], total |-> 8]]

\* Uniform of one 128-bit integer register, 16 bytes: lowers to i128
CastI128 ==
    [prefix |-> [i \in 1..PrefixLen |-> "None"], prefix_chunk_size |-> 8,
     rest |-> [unit |-> [kind |-> "Integer", size |-> 16], total |-> 16]]

PadI128 == SomePad([kind |-> "Integer", size |-> 16])

SigArgs ==
    {ArgAbi(Ignore, NoPad, ScalarLayout(type_void)),
     ArgAbi(Ignore, PadI128, ScalarLayout(type_void)),
     ArgAbi(Direct, NoPad, ScalarLayout(i32)),
     ArgAbi(Direct, PadI128, ScalarLayout(i32)),
     ArgAbi(Direct, NoPad, ScalarLayout(i128)),
     ArgAbi(Direct, NoPad, ScalarLayout(v2i64)),
     ArgAbi(Pair, NoPad, PairLayout(i32, i128)),
     ArgAbi(Pair, PadI128, PairLayout(i32, i128)),
     ArgAbi(Cast(CastI64), NoPad, ScalarLayout(type_ix(64))),
     ArgAbi(Cast(CastI128), NoPad, ScalarLayout(i128))}
    \cup {ArgAbi(Indirect(extra, on_stack), NoPad, ScalarLayout(i32))
            : extra \in BOOLEAN, on_stack \in BOOLEAN}

SigRets ==
    {ArgAbi(Ignore, NoPad, ScalarLayout(type_void)),
     ArgAbi(Direct, NoPad, ScalarLayout(i32)),
     ArgAbi(Direct, NoPad, ScalarLayout(i128)),
     ArgAbi(Pair, NoPad, PairLayout(i32, i128)),
     ArgAbi(Cast(CastI128), NoPad, ScalarLayout(i128)),
     ArgAbi(Indirect(FALSE, FALSE), NoPad, ScalarLayout(i32)),
     ArgAbi(Indirect(FALSE, TRUE), NoPad, ScalarLayout(i32))}

ArgLists(S) == UNION {[1..k -> S] : k \in 0..MaxArgs}

SigDescriptors == [args : ArgLists(SigArgs), ret : SigRets, c_variadic : BOOLEAN]

InitSig ==
    /\ fn_abi \in SigDescriptors
    /\ InitSigVars
    /\ InitAttrVars
    /\ InitAuxExcept("none")
    /\ InitCastVars
    /\ InitConstVars

SigLlvmType ==
    /\ sig_ret.op = "none"
    /\ LlvmTypeStep(fn_abi, FnAbi_llvm_type(fn_abi))
    /\ UNCHANGED <<castVars, constVars, attrVars, auxVars>>

SigApplyAttrsLlfn ==
    /\ sig_ret.op = "none"
    /\ \E r \in {apply_attrs_llfn(fn_abi)} :
          sig_ret' = [NoSigRet EXCEPT !.op = "apply_attrs_llfn",
                                      !.status = Status(r.abort),
                                      !.applied = r.applied, !.sret = r.sret,
                                      !.range = r.range]
    /\ UNCHANGED <<fn_abi, remapped_integer_args, writes, nlower, declared>>
    /\ UNCHANGED <<castVars, constVars, attrVars, auxVars>>

SigApplyAttrsCallsite ==
    /\ sig_ret.op = "none"
    /\ \E r \in {apply_attrs_callsite(fn_abi)} :
          sig_ret' = [NoSigRet EXCEPT !.op = "apply_attrs_callsite",
                                      !.status = Status(r.abort),
                                      !.applied = r.applied, !.sret = r.sret,
                                      !.range = r.range]
    /\ UNCHANGED <<fn_abi, remapped_integer_args, writes, nlower, declared>>
    /\ UNCHANGED <<castVars, constVars, attrVars, auxVars>>

\* position of the first value slot of argument a among the parameters
\* (the index its caller hands to store_fn_arg)
FirstSlot(slots, a) ==
    Cardinality({j \in 1..Len(slots) :
                   slots[j].arg < a \/ (slots[j].arg = a /\ slots[j].role = "pad")})

\* entry marshaling of one argument of the function that was just declared
SigStoreFnArg ==
    /\ sig_ret.op = "llvm_type" /\ sig_ret.status = "ok"
    /\ \E a \in 1..Len(fn_abi.args) :
         \E r \in {store_fn_arg(fn_abi.args[a], sig_ret.ty,
                                FirstSlot(sig_ret.slots, a))} :
            sig_ret' = [sig_ret EXCEPT !.op = "store_fn_arg", !.arg = a,
                                       !.idx = r.idx, !.vals = r.vals,
                                       !.operand = r.operand]
    /\ UNCHANGED <<fn_abi, remapped_integer_args, writes, nlower, declared>>
    /\ UNCHANGED <<castVars, constVars, attrVars, auxVars>>

NextSig ==
    \/ SigLlvmType
    \/ SigApplyAttrsLlfn
    \/ SigApplyAttrsCallsite
    \/ SigStoreFnArg

SpecSig == InitSig /\ [][NextSig]_vars

(***************************************************************************)
(* SpecCall: the attributes of one call are applied.  The return is drawn  *)
(* from every pass mode with every layout.abi; is_bool() holds only of an  *)
(* integer scalar whose valid range is 0..=1, which is never the full      *)
(* range.                                                                  *)
(***************************************************************************)
CallAbis ==
    {AbiScalar("Int", TRUE, FALSE),
     AbiScalar("Int", FALSE, FALSE),
     AbiScalar("Int", FALSE, TRUE),
     AbiScalar("Float", FALSE, TRUE),
     AbiScalar("Pointer", FALSE, FALSE),
     AbiScalar("Pointer", FALSE, TRUE),
     AbiOther("ScalarPair"),
     AbiOther("Aggregate")}

CallModes ==
    {Ignore, Direct, Pair, Cast(CastI64), Indirect(FALSE, FALSE), Indirect(FALSE, TRUE)}

CallRets == {ArgAbi(m, NoPad, LayoutWithAbi(type_i8, abi)) : m \in CallModes, abi \in CallAbis}

CallArgs ==
    {ArgAbi(Ignore, NoPad, ScalarLayout(type_void)),
     ArgAbi(Direct, NoPad, ScalarLayout(i32)),
     ArgAbi(Direct, PadI128, ScalarLayout(i32)),
     ArgAbi(Indirect(TRUE, TRUE), NoPad, ScalarLayout(i32))}

CallDescriptors == [args : ArgLists(CallArgs), ret : CallRets, c_variadic : {FALSE}]

InitCall ==
    /\ fn_abi \in CallDescriptors
    /\ InitSigVars
    /\ InitAttrVars
    /\ InitAuxExcept("none")
    /\ InitCastVars
    /\ InitConstVars

NextCall == SigApplyAttrsCallsite

SpecCall == InitCall /\ [][NextCall]_vars

(***************************************************************************)
(* SpecUnit: one compilation unit.  Functions are declared by lowering     *)
(* their descriptors, in any order and possibly repeatedly; at the entry   *)
(* of a declared function its parameters are retrieved with get_param or   *)
(* marshaled with store_fn_arg.                                            *)
(***************************************************************************)
UnitArgs ==
    {ArgAbi(Direct, NoPad, ScalarLayout(i128)),
     ArgAbi(Direct, NoPad, ScalarLayout(v2i64))}

UnitRets ==
    {ArgAbi(Direct, NoPad, ScalarLayout(i32)),
     ArgAbi(Direct, NoPad, ScalarLayout(i128))}

UnitDescriptors == [args : ArgLists(UnitArgs), ret : UnitRets, c_variadic : {FALSE}]

InitUnit ==
    /\ fn_abi = NoFnAbi
    /\ InitSigVars
    /\ InitAttrVars
    /\ InitAuxExcept("none")
    /\ InitCastVars
    /\ InitConstVars

UnitLlvmType ==
    /\ nlower < MaxLowerings
    /\ \E abi \in UnitDescriptors : LlvmTypeStep(abi, FnAbi_llvm_type(abi))
    /\ UNCHANGED <<castVars, constVars, attrVars, auxVars>>

UnitGetParam ==
    /\ \E abi \in declared :
         \E llfnty \in {FnAbi_llvm_type(abi).ty} :
           \E index \in 0..(NumParams(llfnty) - 1) :
              /\ fn_abi' = abi
              /\ sig_ret' = [NoSigRet EXCEPT
                               !.op = "get_param", !.status = "ok",
                               !.ty = llfnty, !.idx = index,
                               !.vals = <<get_param(remapped_integer_args, llfnty, index)>>]
    /\ UNCHANGED <<remapped_integer_args, writes, nlower, declared>>
    /\ UNCHANGED <<castVars, constVars, attrVars, auxVars>>

UnitStoreFnArg ==
    /\ \E abi \in declared :
         \E l \in {FnAbi_llvm_type(abi)} :
           \E a \in 1..Len(abi.args) :
             \E r \in {store_fn_arg(abi.args[a], l.ty, FirstSlot(l.slots, a))} :
                /\ fn_abi' = abi
                /\ sig_ret' = [NoSigRet EXCEPT
                                 !.op = "store_fn_arg", !.status = "ok",
                                 !.ty = l.ty, !.arg = a, !.idx = r.idx,
                                 !.vals = r.vals, !.operand = r.operand]
    /\ UNCHANGED <<remapped_integer_args, writes, nlower, declared>>
    /\ UNCHANGED <<castVars, constVars, attrVars, auxVars>>

NextUnit ==
    \/ UnitLlvmType
    \/ UnitGetParam
    \/ UnitStoreFnArg

SpecUnit == InitUnit /\ [][NextUnit]_vars

Spec == SpecUnit

(***************************************************************************)
(* check_and_apply_linkage (consts.rs 210-268).  The module's globals are  *)
(* a function from symbol name to "absent" | "declared" | "defined"; the   *)
(* two names the function touches are sym and the derived                  *)
(* _rust_extern_with_linkage_<sym> ("real").  A static is                  *)
(* [linkage, raw_ptr]: attrs.linkage ("None" when absent) and whether its  *)
(* type is a raw pointer.  The outcome is [abort, cause, globals].         *)
(***************************************************************************)
Linkage == {"External", "AvailableExternally", "LinkOnceAny", "LinkOnceODR",
            "WeakAny", "WeakODR", "Appending", "Internal", "Private",
            "ExternalWeak", "Common"}

MutSupportedLinkage(linkage) == linkage # "Appending"

\* the arm of line 222-223
SupportedLinkage(linkage) ==
    linkage \in {"External", "Private", "Internal", "Common",
                 "AvailableExternally", "LinkOnceAny", "LinkOnceODR",
                 "WeakAny", "WeakODR"}

\* get-or-insert of a declaration: an existing global stays what it is
declare_global(globals, name) ==
    IF globals[name] = "absent" THEN [globals EXCEPT ![name] = "declared"]
    ELSE globals

\* None when a definition of the name exists, else the declaration
define_global(globals, name) ==
    IF globals[name] = "defined" THEN [some |-> FALSE, globals |-> globals]
    ELSE [some |-> TRUE, globals |-> declare_global(globals, name)]

LinkageOutcome(abort, cause, globals) ==
    [abort |-> abort, cause |-> cause, globals |-> globals]

DefineReal(g2) ==
    IF ~g2.some THEN LinkageOutcome(TRUE, "already defined", g2.globals)
    ELSE LinkageOutcome(FALSE, "none", [g2.globals EXCEPT !["real"] = "defined"])

check_and_apply_linkage(static, globals) ==
    IF static.linkage = "None"
    THEN LinkageOutcome(FALSE, "none", declare_global(globals, "sym"))
    ELSE IF ~SupportedLinkage(static.linkage)
    THEN LinkageOutcome(TRUE, "linkage", globals)
    ELSE IF ~static.raw_ptr
    THEN LinkageOutcome(TRUE, "type", globals)
    ELSE DefineReal(define_global(declare_global(globals, "sym"), "real"))

(***************************************************************************)
(* SpecLinkage: one foreign static is looked up in a module that may hold  *)
(* either of the two names already.                                        *)
(***************************************************************************)
GlobalStates == {"absent", "declared", "defined"}

Statics == [linkage : Linkage \cup {"None"}, raw_ptr : BOOLEAN]

InitLinkage ==
    /\ link_st \in [op : {"input"}, static : Statics,
                    globals : [{"sym", "real"} -> GlobalStates],
                    out : {LinkageOutcome(FALSE, "none", <<>>)}]
    /\ InitAuxExcept("link_st")
    /\ InitMainVars

CheckAndApplyLinkage ==
    /\ link_st.op = "input"
    /\ \E r \in {check_and_apply_linkage(link_st.static, link_st.globals)} :
          link_st' = [link_st EXCEPT !.op = "check_and_apply_linkage", !.out = r]
    /\ UnchangedAuxExcept("link_st")
    /\ UNCHANGED mainVars

NextLinkage == CheckAndApplyLinkage

SpecLinkage == InitLinkage /\ [][NextLinkage]_vars

(***************************************************************************)
(* optimize (back.rs 329-411).  A configuration is                         *)
(*   [opt_level, no_prepopulate_passes, passes]                            *)
(* with opt_level whether config.opt_level is Some and passes the          *)
(* sequence of configured pass names.  The run state is                    *)
(*   fpm, mpm   what was added to each pass manager, in order              *)
(*   warnings   the pass names warned about, in order                      *)
(*   errors     number of diag_handler.err calls                           *)
(*   ran        the pass managers that were run, in order                  *)
(*   result     "Ok" | "abort"                                             *)
(***************************************************************************)
\* LLVMRustFindAndCreatePass and LLVMRustPassKind: the pass registry's
\* answer for a name; "none" when the registry does not know the name
PassRegistry ==
    [function_pass   |-> "Function", function_pass_2 |-> "Function",
     module_pass     |-> "Module",   other_pass      |-> "Other",
     unknown_pass    |-> "none",     unknown_pass_2  |-> "none"]

NoPasses ==
    [fpm |-> <<>>, mpm |-> <<>>, warnings |-> <<>>, errors |-> 0,
     ran |-> <<>>, result |-> "none"]

MutWarn(st, pass) == st

\* line 395
Warn(st, pass) == [st EXCEPT !.warnings = Append(@, pass)]

\* the closure of lines 362-379 and its use at lines 394-396
addpass(st, pass) ==
    CASE PassRegistry[pass] = "none"     -> Warn(st, pass)
      [] PassRegistry[pass] = "Function" -> [st EXCEPT !.fpm = Append(@, pass)]
      [] PassRegistry[pass] = "Module"   -> [st EXCEPT !.mpm = Append(@, pass)]
      [] PassRegistry[pass] = "Other"    -> [st EXCEPT !.errors = @ + 1]

RECURSIVE AddPasses(_, _, _)
AddPasses(st, passes, i) ==
    IF i > Len(passes) THEN st
    ELSE AddPasses(addpass(st, passes[i]), passes, i + 1)

\* lines 381-391
Prepopulate(st, config) ==
    IF config.no_prepopulate_passes THEN st
    ELSE [st EXCEPT !.fpm = <<"analysis", "pmb">>, !.mpm = <<"analysis", "pmb">>]

\* lines 399-410
RunPasses(st) ==
    IF st.errors > 0 THEN [st EXCEPT !.result = "abort"]
    ELSE [st EXCEPT !.ran = <<"fpm", "mpm">>, !.result = "Ok"]

optimize(config) ==
    IF ~config.opt_level THEN [NoPasses EXCEPT !.result = "Ok"]
    ELSE RunPasses(AddPasses(Prepopulate(NoPasses, config), config.passes, 1))

(***************************************************************************)
(* SpecOptimize: one module is optimized under a configuration drawn from  *)
(* bounded sets.                                                           *)
(***************************************************************************)
PassLists == UNION {[1..n -> DOMAIN PassRegistry] : n \in 0..MaxPasses}

ModuleConfigs ==
    [opt_level : BOOLEAN, no_prepopulate_passes : BOOLEAN, passes : PassLists]

InitOptimize ==
    /\ opt_st \in [op : {"input"}, config : ModuleConfigs, out : {NoPasses}]
    /\ InitAuxExcept("opt_st")
    /\ InitMainVars

Optimize ==
    /\ opt_st.op = "input"
    /\ \E r \in {optimize(opt_st.config)} :
          opt_st' = [opt_st EXCEPT !.op = "optimize", !.out = r]
    /\ UnchangedAuxExcept("opt_st")
    /\ UNCHANGED mainVars

NextOptimize == Optimize

SpecOptimize == InitOptimize /\ [][NextOptimize]_vars

(***************************************************************************)
(* The per-unit context.  module_codegen creates one CodegenCx for each    *)
(* compilation unit (back.rs 257) and drops it before it returns (back.rs  *)
(* 312); every cache is a field reached through that cx:                   *)
(*   remapped_integer_args  concrete fn type -> record   (abi.rs 362-366)  *)
(*   const_globals          constant -> global           (consts.rs 349)   *)
(*   const_cstr_cache       symbol -> global             (consts.rs 48)    *)
(*   instances              static -> global             (consts.rs 298)   *)
(*   statics_to_rauw        sequence of <<old, new>>     (consts.rs 423)   *)
(* and the module of the unit:                                             *)
(*   alignment              global -> alignment; its domain is the set of  *)
(*                          globals of the module                          *)
(*   counter                the local symbol counter                       *)
(* A global is <<name, n>>: n numbers the local symbols of one kind and    *)
(* tells the global a static was declared with (0) from its replacement.   *)
(* An operation of a unit is [kind, key, val].                             *)
(***************************************************************************)
NewCx ==
    [remapped_integer_args |-> EmptyMap, const_globals |-> EmptyMap,
     const_cstr_cache |-> EmptyMap, instances |-> EmptyMap,
     statics_to_rauw |-> <<>>, alignment |-> EmptyMap, counter |-> 0,
     aborted |-> FALSE]

\* the statics that are mono items of the unit, and whether the type of the
\* initializer differs from the declared type (consts.rs 391)
LocalStatics == [retyped |-> TRUE, plain |-> FALSE]

\* abi.rs 362-366
RecordRemap(cx, key, val) ==
    [cx EXCEPT !.remapped_integer_args = Insert(@, key, val)]

\* generate_local_symbol_name and define_global: a fresh global
DefineLocal(cx, kind, align) ==
    [cx EXCEPT !.counter = @ + 1,
               !.alignment = Insert(@, <<kind, cx.counter>>, align)]

MutUpgradeAlign(cx, gv, align) == [cx EXCEPT !.alignment[gv] = align]

\* consts.rs 353-356
UpgradeAlign(cx, gv, align) ==
    IF align > cx.alignment[gv] THEN [cx EXCEPT !.alignment[gv] = align] ELSE cx

\* consts.rs 348-366, with static_addr_of_mut (276-294)
static_addr_of(cx, cv, align) ==
    IF cv \in DOMAIN cx.const_globals
    THEN UpgradeAlign(cx, cx.const_globals[cv], align)
    ELSE [DefineLocal(cx, "private", align)
            EXCEPT !.const_globals = Insert(@, cv, <<"private", cx.counter>>)]

\* consts.rs 45-72
const_cstr(cx, s) ==
    IF s \in DOMAIN cx.const_cstr_cache THEN cx
    ELSE [DefineLocal(cx, "str", 0)
            EXCEPT !.const_cstr_cache = Insert(@, s, <<"str", cx.counter>>)]

\* MonoItem::predefine of a static: the global is declared under the
\* symbol of the static and entered into instances
predefine_static(cx, d) ==
    [cx EXCEPT !.alignment = Insert(@, <<d, 0>>, 0),
               !.instances = Insert(@, d, <<d, 0>>)]

\* consts.rs 296-344
get_static(cx, d) ==
    IF d \in DOMAIN cx.instances THEN cx
    ELSE IF d \in DOMAIN LocalStatics THEN [cx EXCEPT !.aborted = TRUE]
    ELSE [cx EXCEPT !.alignment = Insert(@, <<d, 0>>, 0),
                    !.instances = Insert(@, d, <<d, 0>>)]

\* consts.rs 391-425: the global the initializer is attached to
Retype(cx, d) ==
    IF ~LocalStatics[d] THEN cx
    ELSE [cx EXCEPT !.alignment = Insert(@, <<d, 1>>, 0),
                    !.statics_to_rauw = Append(@, <<cx.instances[d], <<d, 1>>>>)]

DefinedGlobal(cx, d) == IF LocalStatics[d] THEN <<d, 1>> ELSE cx.instances[d]

\* consts.rs 368-450; align is self.align_of(ty)
codegen_static(cx, d, align) ==
    IF get_static(cx, d).aborted THEN get_static(cx, d)
    ELSE [Retype(cx, d) EXCEPT !.alignment[DefinedGlobal(cx, d)] = align]

Apply(cx, op) ==
    CASE op.kind = "llvm_type"        -> RecordRemap(cx, op.key, op.val)
      [] op.kind = "static_addr_of"   -> static_addr_of(cx, op.key, op.val)
      [] op.kind = "const_cstr"       -> const_cstr(cx, op.key)
      [] op.kind = "get_static"       -> get_static(cx, op.key)
      [] op.kind = "predefine_static" -> predefine_static(cx, op.key)
      [] op.kind = "codegen_static"   -> codegen_static(cx, op.key, op.val)

Op(kind, key, val) == [kind |-> kind, key |-> key, val |-> val]

\* what the program does with its mono items: each is predefined once,
\* defined once and after that, and looked up only once predefined
Enabled(hist, op) ==
    LET done(kind) == \E i \in 1..Len(hist) :
                         hist[i].kind = kind /\ hist[i].key = op.key
    IN  CASE op.kind = "predefine_static" -> ~done("predefine_static")
          [] op.kind = "codegen_static"   ->
                done("predefine_static") /\ ~done("codegen_static")
          [] op.kind = "get_static" /\ op.key \in DOMAIN LocalStatics ->
                done("predefine_static")
          [] OTHER -> TRUE

(***************************************************************************)
(* SpecUnits: two compilation units run their operations in any            *)
(* interleaving.  CxOf(u) is the context unit u works on.                  *)
(***************************************************************************)
Units == {1, 2}

MutCxOf(u) == 1

\* back.rs 257: the cx of the call of module_codegen for the unit
CxOf(u) == u

UnitOps ==
    {Op("llvm_type", "T", "record_1"), Op("llvm_type", "T", "record_2"),
     Op("static_addr_of", "c", 1), Op("static_addr_of", "c", 8),
     Op("const_cstr", "s", 0), Op("get_static", "foreign", 0),
     Op("predefine_static", "retyped", 0), Op("codegen_static", "retyped", 4)}

NewUnits == [op |-> "units", cx |-> [u \in Units |-> NewCx],
             hist |-> [u \in Units |-> <<>>]]

InitUnits ==
    /\ units_st = NewUnits
    /\ InitAuxExcept("units_st")
    /\ InitMainVars

\* unit u performs op, at most max operations per unit
UnitStep(u, op, max) ==
    /\ Len(units_st.hist[u]) < max
    /\ Enabled(units_st.hist[u], op)
    /\ units_st' = [units_st EXCEPT !.cx[CxOf(u)] = Apply(@, op),
                                    !.hist[u] = Append(@, op)]
    /\ UnchangedAuxExcept("units_st")
    /\ UNCHANGED mainVars

NextUnits == \E u \in Units, op \in UnitOps : UnitStep(u, op, MaxUnitOps)

SpecUnits == InitUnits /\ [][NextUnits]_vars

(***************************************************************************)
(* SpecCallSeq: the call sites of one builder.  cx.last_call_llfn holds    *)
(* the original call when the builder handed back a reinterpretation of    *)
(* its result ("None" otherwise).  An event is                             *)
(*   [kind, pending, given, target, applied, range, status, after]         *)
(* pending and after are last_call_llfn before and after the event, given  *)
(* the value handed to apply_attrs_callsite, target the value everything   *)
(* was attached to.                                                        *)
(***************************************************************************)
MutCallsite(last_call_llfn, callsite) == callsite

\* abi.rs 460-463: the value of `callsite` after the if
Callsite(last_call_llfn, callsite) ==
    IF last_call_llfn # "None" THEN last_call_llfn ELSE callsite

Callsites == {"bitcast_of_remapped_call", "plain_call"}

SeqDescriptors == {d \in CallDescriptors : Len(d.args) <= 1}

InitCallSeq ==
    /\ fn_abi \in SeqDescriptors
    /\ call_st \in [op : {"calls"}, last_call_llfn : {"None", "remapped_call"},
                    log : {<<>>}]
    /\ InitSigVars
    /\ InitAttrVars
    /\ InitCastVars
    /\ InitConstVars
    /\ InitAuxExcept("call_st")

\* Builder::call of a function whose return type was remapped: the call is
\* recorded and its reinterpreted result is handed back
RecordRemappedCall ==
    /\ Len(call_st.log) < MaxCalls
    /\ call_st' = [call_st EXCEPT
          !.last_call_llfn = "remapped_call",
          !.log = Append(@, [kind |-> "call", pending |-> call_st.last_call_llfn,
                             given |-> "None", target |-> "None",
                             applied |-> <<>>, range |-> FALSE, status |-> "ok",
                             after |-> "remapped_call"])]
    /\ UnchangedAuxExcept("call_st")
    /\ UNCHANGED mainVars

\* FnAbi::apply_attrs_callsite(bx, callsite)
SeqApplyAttrsCallsite(callsite) ==
    /\ Len(call_st.log) < MaxCalls
    /\ \E r \in {apply_attrs_callsite(fn_abi)} :
          call_st' = [call_st EXCEPT
             !.last_call_llfn = "None",
             !.log = Append(@, [kind |-> "apply",
                                pending |-> call_st.last_call_llfn,
                                given |-> callsite,
                                target |-> Callsite(call_st.last_call_llfn, callsite),
                                applied |-> r.applied, range |-> r.range,
                                status |-> Status(r.abort), after |-> "None"])]
    /\ UnchangedAuxExcept("call_st")
    /\ UNCHANGED mainVars

NextCallSeq ==
    \/ RecordRemappedCall
    \/ \E callsite \in Callsites : SeqApplyAttrsCallsite(callsite)

SpecCallSeq == InitCallSeq /\ [][NextCallSeq]_vars

(***************************************************************************)
(* SpecStatics: one unit (unit 1) makes a sequence of static_addr_of calls *)
(* with constants and alignments drawn from bounded sets.                  *)
(***************************************************************************)
StaticAddrOfCalls ==
    {Op("static_addr_of", cv, align) : cv \in {"c1", "c2"}, align \in {1, 4, 8}}

NextStatics == \E op \in StaticAddrOfCalls : UnitStep(1, op, MaxStaticCalls)

SpecStatics == InitUnits /\ [][NextStatics]_vars

(***************************************************************************)
(* module_codegen (back.rs 251-319), step by step.  The state is           *)
(*   items        mono_items, in their deterministic order                 *)
(*   pc, i        the loop being run and its position:                     *)
(*                "predefine" (261-263), "define" (266-284),               *)
(*                "rauw" / "delete" (292-298: the two calls of one         *)
(*                iteration), "used" (301-306), "return" (314-318), "done" *)
(*   cx           the context of the unit                                  *)
(*   uses         <<function, global>>: the function's body refers to the  *)
(*                global                                                   *)
(*   used_statics, used_var   cx.used_statics and whether llvm.used exists *)
(*   predefined, defined, processed   what each loop has done so far       *)
(* Items are statics (LocalStatics) and functions: "user" refers to every  *)
(* static of the unit, "no_mangle" is kept alive through llvm.used.        *)
(***************************************************************************)
MonoItems ==
    {[kind |-> "Static", name |-> d] : d \in DOMAIN LocalStatics}
    \cup {[kind |-> "Fn", name |-> f] : f \in {"user", "no_mangle"}}

Remove(map, key) == [t \in DOMAIN map \ {key} |-> map[t]]

\* the loop at pc is exhausted: go on to the next one
Advance(m) ==
    LET m1 == IF m.pc = "predefine" /\ m.i > Len(m.items)
              THEN [m EXCEPT !.pc = "define", !.i = 1] ELSE m
        m2 == IF m1.pc = "define" /\ m1.i > Len(m1.items)
              THEN [m1 EXCEPT !.pc = "rauw", !.i = 1] ELSE m1
    IN  IF m2.pc = "rauw" /\ m2.i > Len(m2.cx.statics_to_rauw)
        THEN [m2 EXCEPT !.pc = "used", !.i = 1] ELSE m2

\* back.rs 262
predefine(m, item) ==
    [m EXCEPT !.cx = IF item.kind = "Static" THEN predefine_static(@, item.name)
                     ELSE @,
              !.predefined = Append(@, item), !.i = @ + 1]

\* the statics of the unit the body of a function refers to
RefsOf(m, f) ==
    IF f = "user"
    THEN {m.items[j].name : j \in {j \in 1..Len(m.items) : m.items[j].kind = "Static"}}
    ELSE {}

\* back.rs 267-283
define(m, item) ==
    IF item.kind = "Static"
    THEN [m EXCEPT !.cx = codegen_static(@, item.name, 4),
                   !.defined = Append(@, item), !.i = @ + 1]
    ELSE [m EXCEPT !.uses = @ \cup {<<item.name, m.cx.instances[d]>> :
                                       d \in RefsOf(m, item.name)},
                   !.used_statics = IF item.name = "no_mangle"
                                    THEN Append(@, item.name) ELSE @,
                   !.defined = Append(@, item), !.i = @ + 1]

MutReplaceAllUsesWith(uses, old, new) == uses

\* back.rs 294-295
ReplaceAllUsesWith(uses, old, new) ==
    {<<u[1], IF u[2] = old THEN new ELSE u[2]>> : u \in uses}

(***************************************************************************)
(* SpecModule: module_codegen of one unit whose mono items are drawn from  *)
(* bounded sets.                                                           *)
(***************************************************************************)
ItemLists ==
    {l \in UNION {[1..n -> MonoItems] : n \in 0..MaxItems} :
        \A a, b \in 1..Len(l) : l[a] = l[b] => a = b}

NewModule(items) ==
    Advance([op |-> "module_codegen", items |-> items, pc |-> "predefine", i |-> 1,
             cx |-> NewCx, uses |-> {}, used_statics |-> <<>>, used_var |-> FALSE,
             predefined |-> <<>>, defined |-> <<>>, processed |-> <<>>])

InitModule ==
    /\ module_st \in {NewModule(items) : items \in ItemLists}
    /\ InitAuxExcept("module_st")
    /\ InitMainVars

PredefineItem ==
    /\ module_st.pc = "predefine"
    /\ module_st' = Advance(predefine(module_st, module_st.items[module_st.i]))
    /\ UnchangedAuxExcept("module_st")
    /\ UNCHANGED mainVars

DefineItem ==
    /\ module_st.pc = "define"
    /\ module_st' = Advance(define(module_st, module_st.items[module_st.i]))
    /\ UnchangedAuxExcept("module_st")
    /\ UNCHANGED mainVars

\* LLVMReplaceAllUsesWith(old_g, bitcast) of the pair at i
RauwReplace ==
    /\ module_st.pc = "rauw"
    /\ \E pair \in {module_st.cx.statics_to_rauw[module_st.i]} :
          module_st' = [module_st EXCEPT
             !.uses = ReplaceAllUsesWith(@, pair[1], pair[2]), !.pc = "delete"]
    /\ UnchangedAuxExcept("module_st")
    /\ UNCHANGED mainVars

\* LLVMDeleteGlobal(old_g) of the pair at i
RauwDelete ==
    /\ module_st.pc = "delete"
    /\ \E pair \in {module_st.cx.statics_to_rauw[module_st.i]} :
          module_st' = Advance([module_st EXCEPT
             !.cx.alignment = Remove(@, pair[1]),
             !.processed = Append(@, pair), !.pc = "rauw", !.i = @ + 1])
    /\ UnchangedAuxExcept("module_st")
    /\ UNCHANGED mainVars

\* back.rs 301-306
CreateUsedVariables ==
    /\ module_st.pc = "used"
    /\ module_st' = [module_st EXCEPT !.used_var = module_st.used_statics # <<>>,
                                      !.pc = "return"]
    /\ UnchangedAuxExcept("module_st")
    /\ UNCHANGED mainVars

\* back.rs 312-318
ReturnModule ==
    /\ module_st.pc = "return"
    /\ module_st' = [module_st EXCEPT !.pc = "done"]
    /\ UnchangedAuxExcept("module_st")
    /\ UNCHANGED mainVars

NextModule ==
    \/ PredefineItem
    \/ DefineItem
    \/ RauwReplace
    \/ RauwDelete
    \/ CreateUsedVariables
    \/ ReturnModule

SpecModule == InitModule /\ [][NextModule]_vars

(***************************************************************************)
(* readjust_fn_abi (abi.rs 21-72).  Here an argument is                    *)
(*   [mode |-> [kind, regular], pad, layout |-> [zst, ty, abi]]            *)
(* regular: the regular attribute flags the mode carries; zst:             *)
(* layout.is_zst(); ty: "Array", "RefSlice" (a reference to a slice) or    *)
(* "Other"; abi: layout.abi.  A descriptor is                              *)
(*   [conv, args, ret, c_variadic, fixed_count, can_unwind].               *)
(***************************************************************************)
PassModeOf(kind, regular) == [kind |-> kind, regular |-> regular]

\* abi.rs 36-39
IgnoreZst(arg) ==
    IF arg.layout.zst THEN [arg EXCEPT !.mode = PassModeOf("Ignore", {})] ELSE arg

\* abi.rs 41-49
SliceRefAsPair(arg) ==
    IF arg.layout.ty = "RefSlice"
    THEN [arg EXCEPT !.mode = PassModeOf("Pair",
                        IF arg.mode.kind = "Indirect" THEN arg.mode.regular ELSE {})]
    ELSE arg

\* abi.rs 51-53
ArrayAsDirect(arg) ==
    IF arg.layout.ty = "Array" /\ arg.mode.kind # "Direct"
    THEN [arg EXCEPT !.mode = PassModeOf("Direct", {})] ELSE arg

\* abi.rs 57-61
AggregateAsDirect(arg) ==
    IF arg.layout.abi = "Aggregate" /\ arg.mode.kind = "Indirect"
    THEN [arg EXCEPT !.mode = PassModeOf("Direct", {})] ELSE arg

\* the closure of abi.rs 29-63
readjust_arg_abi(arg) == AggregateAsDirect(ArrayAsDirect(SliceRefAsPair(IgnoreZst(arg))))

readjust_fn_abi(abi) ==
    IF abi.conv = "Rust" THEN abi
    ELSE [conv        |-> abi.conv,
          args        |-> [j \in 1..Len(abi.args) |-> readjust_arg_abi(abi.args[j])],
          ret         |-> readjust_arg_abi(abi.ret),
          c_variadic  |-> abi.c_variadic,
          fixed_count |-> abi.fixed_count,
          can_unwind  |-> abi.can_unwind]

(***************************************************************************)
(* SpecReadjust: one descriptor drawn from bounded sets is readjusted.     *)
(* Zero-sized types and arrays have an Aggregate layout, a reference to a  *)
(* slice is a scalar pair.                                                 *)
(***************************************************************************)
ReadjustLayouts ==
    {[zst |-> z, ty |-> "Array", abi |-> "Aggregate"] : z \in BOOLEAN}
    \cup {[zst |-> FALSE, ty |-> "RefSlice", abi |-> "ScalarPair"],
          [zst |-> TRUE, ty |-> "Other", abi |-> "Aggregate"],
          [zst |-> FALSE, ty |-> "Other", abi |-> "Aggregate"],
          [zst |-> FALSE, ty |-> "Other", abi |-> "Scalar"]}

ReadjustModes ==
    {PassModeOf("Ignore", {}), PassModeOf("Direct", {"NoAlias"}),
     PassModeOf("Indirect", {"NoAlias"}), PassModeOf("Cast", {})}

\* arguments as the front end classifies them: Ignore only for a zero-sized
\* type, Cast only for an aggregate
ReadjustArgs ==
    {a \in [mode : ReadjustModes, pad : {FALSE}, layout : ReadjustLayouts] :
        /\ a.mode.kind = "Ignore" => a.layout.zst
        /\ a.mode.kind = "Cast" => (a.layout.abi = "Aggregate" /\ ~a.layout.zst)}
    \cup {[mode |-> PassModeOf("Pair", {}), pad |-> FALSE,
           layout |-> [zst |-> FALSE, ty |-> "RefSlice", abi |-> "ScalarPair"]],
          [mode |-> PassModeOf("Direct", {}), pad |-> TRUE,
           layout |-> [zst |-> FALSE, ty |-> "Other", abi |-> "Scalar"]]}

ReadjustDescriptors ==
    {d \in [conv : {"Rust", "C"}, args : ArgLists(ReadjustArgs),
            ret : {a \in ReadjustArgs : a.layout.ty = "Other"},
            c_variadic : BOOLEAN, fixed_count : 0..MaxArgs, can_unwind : {FALSE}] :
        d.fixed_count = Len(d.args)}

InitReadjust ==
    /\ readjust_st \in {[op |-> "input", fn_abi |-> d, out |-> d] :
                           d \in ReadjustDescriptors}
    /\ InitAuxExcept("readjust_st")
    /\ InitMainVars

Readjust ==
    /\ readjust_st.op = "input"
    /\ \E r \in {readjust_fn_abi(readjust_st.fn_abi)} :
          readjust_st' = [readjust_st EXCEPT !.op = "readjust_fn_abi", !.out = r]
    /\ UnchangedAuxExcept("readjust_st")
    /\ UNCHANGED mainVars

NextReadjust == Readjust

SpecReadjust == InitReadjust /\ [][NextReadjust]_vars

(***************************************************************************)
(* Properties                                                              *)
(***************************************************************************)
ParamsOf(llfnty) == SubSeq(llfnty.elems, 2, Len(llfnty.elems))

RECURSIVE SumLens(_, _)
SumLens(fields, i) ==
    IF i > Len(fields) THEN 0 ELSE fields[i].len + SumLens(fields, i + 1)

\* C1 as stated: whenever CastTarget::llvm_type returns, the byte size of the
\* returned type (sum of element sizes) is the declared total, prefix chunks
\* times chunk size plus rest total, also for a rest total under one unit.
C1_Original ==
    cast_ret.status = "ok" => SizeOf(cast_ret.ty) = DeclaredTotal(cast)

\* C1 amended: whenever CastTarget::llvm_type returns, the byte size of the
\* returned type is the declared total, with two exceptions: with no prefix
\* chunk and a rest total under one rest unit it is the size of the bare rest
\* unit, and with a rest unit of size zero it is the size of the prefix
\* chunks alone.
C1_Amended ==
    cast_ret.status = "ok"
    => SizeOf(cast_ret.ty) =
          IF NoPrefix(cast) /\ cast.rest.total < cast.rest.unit.size
          THEN cast.rest.unit.size
          ELSE IF cast.rest.unit.size = 0
               THEN DeclaredTotal(cast) - cast.rest.total
               ELSE DeclaredTotal(cast)

C1_Witness ==
    /\ cast_ret.status = "ok"
    /\ ~NoPrefix(cast)
    /\ cast.rest.total > cast.rest.unit.size
    /\ rem_bytes(cast) # 0
    /\ cast_ret.ty.kind = "struct"

DirectOrIgnoreOnly(abi) ==
    /\ abi.ret.mode.kind \in {"Direct", "Ignore"}
    /\ \A a \in 1..Len(abi.args) : abi.args[a].mode.kind \in {"Direct", "Ignore"}

IsNotIgnore(arg) == arg.mode.kind # "Ignore"

\* for Direct/Ignore arguments: per argument in declaration order, the type
\* of its padding register if declared, then its remapped immediate type
\* unless it is Ignore
RECURSIVE DirectParams(_, _)
DirectParams(args, a) ==
    IF a > Len(args) THEN <<>>
    ELSE (IF args[a].pad.some THEN <<Reg_llvm_type(args[a].pad.reg).ty>> ELSE <<>>)
         \o (IF IsNotIgnore(args[a])
             THEN <<get_transformed_type(args[a].layout.imm).ty>> ELSE <<>>)
         \o DirectParams(args, a + 1)

HasPad(arg) == arg.pad.some

\* C2 as stated: for a descriptor of Direct and Ignore classifications only
\* (padding allowed), the function type of FnAbi::llvm_type has as many
\* parameters as there are non-Ignore arguments, in their declaration order.
C2_Original ==
    (sig_ret.op = "llvm_type" /\ sig_ret.status = "ok" /\ DirectOrIgnoreOnly(fn_abi))
    => LET nonIgnore == SelectSeq(fn_abi.args, IsNotIgnore)
       IN  /\ NumParams(sig_ret.ty) = Len(nonIgnore)
           /\ \A j \in 1..Len(nonIgnore) :
                ParamsOf(sig_ret.ty)[j] = get_transformed_type(nonIgnore[j].layout.imm).ty

\* C2 amended: for a descriptor of Direct and Ignore classifications only,
\* the parameter count is the number of non-Ignore arguments plus the number
\* of arguments that declare a padding register, and the parameters are, in
\* declaration order of the arguments, each argument's padding slot (if
\* declared) followed by its value slot (unless Ignore).
C2_Amended ==
    (sig_ret.op = "llvm_type" /\ sig_ret.status = "ok" /\ DirectOrIgnoreOnly(fn_abi))
    => /\ NumParams(sig_ret.ty) = Len(SelectSeq(fn_abi.args, IsNotIgnore))
                                  + Len(SelectSeq(fn_abi.args, HasPad))
       /\ ParamsOf(sig_ret.ty) = DirectParams(fn_abi.args, 1)

C2_Witness ==
    /\ sig_ret.op = "llvm_type" /\ sig_ret.status = "ok"
    /\ DirectOrIgnoreOnly(fn_abi)
    /\ Len(fn_abi.args) = 2
    /\ fn_abi.args[1].mode.kind = "Ignore" /\ fn_abi.args[1].pad.some
    /\ fn_abi.args[2].mode.kind = "Direct"
    /\ NumParams(sig_ret.ty) = 2

FullyDefined(a) == \A i \in 1..Len(a.init_mask) : a.init_mask[i]

\* C3: a fully defined 16-byte image with one relocation at offset 8 encodes
\* to exactly two fields, an 8-byte literal and then the pointer, with no
\* trailing field, under every threshold policy.
C3_Original ==
    (/\ llvals.done
     /\ Len(alloc.bytes) = 16 /\ FullyDefined(alloc)
     /\ Len(alloc.relocations) = 1 /\ alloc.relocations[1].offset = 8)
    => /\ Len(llvals.fields) = 2
       /\ llvals.fields[1].kind = "bytes" /\ llvals.fields[1].len = 8
       /\ llvals.fields[2].kind = "ptr"

\* C4: every operation that consumes a descriptor whose return is Indirect
\* with on_stack set aborts.
C4_Original ==
    (/\ sig_ret.op \in {"llvm_type", "apply_attrs_llfn", "apply_attrs_callsite"}
     /\ fn_abi.ret.mode.kind = "Indirect" /\ fn_abi.ret.mode.on_stack)
    => sig_ret.status = "abort"

\* C5: in the function type of FnAbi::llvm_type the return type and every
\* parameter slot carries the result of get_transformed_type on the type that
\* was computed for it.
C5_Original ==
    (sig_ret.op = "llvm_type" /\ sig_ret.status = "ok")
    => /\ sig_ret.ret.ty = get_transformed_type(sig_ret.ret.raw).ty
       /\ \A j \in 1..Len(sig_ret.slots) :
            sig_ret.slots[j].ty = get_transformed_type(sig_ret.slots[j].raw).ty

\* C6: a record stored under a concrete function type is never changed or
\* removed by a later step of the unit.
C6_Original ==
    [][\A t \in DOMAIN remapped_integer_args :
          /\ t \in DOMAIN remapped_integer_args'
          /\ remapped_integer_args'[t] = remapped_integer_args[t]]_vars

\* C7: the remap table is written at most once per concrete function type.
C7_Original ==
    \A t \in DOMAIN writes : writes[t] <= 1

\* the original type recorded for parameter index of llfnty, if any
Recorded(llfnty, index) ==
    IF llfnty \in DOMAIN remapped_integer_args
    THEN {e \in Range(remapped_integer_args[llfnty].transformed_types) : e[1] = index}
    ELSE {}

\* C8: at function entry a parameter with a recorded remapping is
\* reinterpreted to the recorded original type, through get_param and
\* through store_fn_arg alike; a parameter without record is passed on raw.
C8_Original ==
    (sig_ret.op \in {"get_param", "store_fn_arg"})
    => \A j \in 1..Len(sig_ret.vals) :
          LET v == sig_ret.vals[j]
              rec == Recorded(sig_ret.ty, v.index)
          IN  IF rec # {}
              THEN v.transmuted /\ \E e \in rec : v.ty = e[2]
              ELSE v = RawParam(sig_ret.ty, v.index)

\* C9: the byte lengths of the emitted fields, pointers counted at the
\* pointer width, sum to the length of the image.
C9_FieldLengthsSumToImage ==
    llvals.done => SumLens(llvals.fields, 1) = Len(alloc.bytes)

C9_Witness ==
    /\ llvals.done
    /\ Len(alloc.relocations) = 1
    /\ alloc.relocations[1].offset > 0
    /\ \E j \in 1..Len(llvals.fields) : llvals.fields[j].kind = "undef"
    /\ Len(llvals.fields) >= 4

Undefined == 0 - 1

\* the byte sequence of a field; an undefined placeholder holds no byte values
FieldBytes(f) == IF f.kind = "undef" THEN [i \in 1..f.len |-> Undefined] ELSE f.bytes

RECURSIVE Concat(_, _)
Concat(fields, i) ==
    IF i > Len(fields) THEN <<>> ELSE FieldBytes(fields[i]) \o Concat(fields, i + 1)

\* C10: an image without relocations encodes to fields whose concatenation
\* has the image's length and the image's byte at every defined offset.
C10_DefinedBytesPreserved ==
    (llvals.done /\ alloc.relocations = <<>>)
    => LET out == Concat(llvals.fields, 1)
       IN  /\ Len(out) = Len(alloc.bytes)
           /\ \A i \in 1..Len(alloc.bytes) :
                alloc.init_mask[i] => out[i] = alloc.bytes[i]

C10_Witness ==
    /\ llvals.done /\ alloc.relocations = <<>>
    /\ Len(llvals.fields) = 3
    /\ llvals.fields[1].kind = "undef"
    /\ llvals.fields[2].kind = "bytes"

\* the value slots that FnAbi::llvm_type emitted for argument a
ValueSlots(slots, a) == {j \in 1..Len(slots) : slots[j].arg = a /\ slots[j].role = "val"}

\* C11: store_fn_arg advances the raw parameter index by exactly the number
\* of non-padding slots that llvm_type emitted for the argument (0 for
\* Ignore, 2 for Pair, 2 for Indirect with extra attributes, 1 otherwise),
\* takes those slots in ascending order, and a Pair is stored as one
\* combined pair value.
C11_StoreFnArgAdvance ==
    sig_ret.op = "store_fn_arg"
    => LET a     == sig_ret.arg
           arg   == fn_abi.args[a]
           k     == arg.mode.kind
           start == FirstSlot(sig_ret.slots, a)
           n     == Cardinality(ValueSlots(sig_ret.slots, a))
       IN  /\ sig_ret.idx = start + n
           /\ n = CASE k = "Ignore" -> 0
                    [] k = "Pair" -> 2
                    [] k = "Indirect" /\ arg.mode.extra -> 2
                    [] OTHER -> 1
           /\ Len(sig_ret.vals) = n
           /\ \A j \in 1..n : /\ sig_ret.vals[j].index = start + j - 1
                              /\ start + j \in ValueSlots(sig_ret.slots, a)
           /\ k = "Pair" => sig_ret.operand = "Pair"

C11_Witness ==
    /\ sig_ret.op = "store_fn_arg"
    /\ sig_ret.arg = 2
    /\ fn_abi.args[1].mode.kind = "Indirect" /\ fn_abi.args[1].mode.extra
    /\ fn_abi.args[2].mode.kind = "Pair" /\ fn_abi.args[2].pad.some
    /\ fn_abi.ret.mode.kind = "Indirect"
    /\ sig_ret.idx = 6

\* C12: apply_attrs_callsite attaches range metadata to the call exactly
\* when the return layout is a scalar integer that is not boolean and whose
\* valid range is not the full range; a boolean return never receives range
\* metadata, whatever its pass mode.
C12_RangeMetadata ==
    (sig_ret.op = "apply_attrs_callsite" /\ sig_ret.status = "ok")
    => LET abi == fn_abi.ret.layout.abi
       IN  /\ sig_ret.range <=> (/\ abi.kind = "Scalar" /\ abi.value = "Int"
                                 /\ ~abi.is_bool /\ ~abi.is_always_valid)
           /\ abi.is_bool => ~sig_ret.range

C12_Witness ==
    /\ sig_ret.op = "apply_attrs_callsite" /\ sig_ret.status = "ok"
    /\ fn_abi.ret.mode.kind = "Direct"
    /\ fn_abi.ret.layout.abi = AbiScalar("Int", FALSE, FALSE)
    /\ sig_ret.range
    /\ Len(fn_abi.args) = 2

\* the types of the present prefix chunks of c, in order
PrefixTypes(c) ==
    [i \in 1..Len(PrefixRegs(c, 1)) |-> Reg_llvm_type(PrefixRegs(c, 1)[i]).ty]

\* the result shape of the three ordered tiers for count whole rest units
\* and a remainder of rem bytes
TierShape(c, count, rem) ==
    LET unit == Reg_llvm_type(c.rest.unit).ty
    IN  IF NoPrefix(c) /\ c.rest.total <= c.rest.unit.size THEN unit
        ELSE IF NoPrefix(c) /\ rem = 0 THEN type_array(unit, count)
        ELSE type_struct(PrefixTypes(c) \o Repeat(unit, count)
                         \o (IF rem # 0 THEN <<type_ix(rem * 8)>> ELSE <<>>))

\* whole units in total bytes, none when the unit is empty
WholeUnits(total, unit_size) == IF unit_size = 0 THEN 0 ELSE total \div unit_size

\* C13 as stated: the returned type is the bare unit, the array or the
\* struct of the three ordered tiers, the rest being floor(total / unit size)
\* whole units and the remainder the bytes of the total these leave over.
C13_Original ==
    cast_ret.status = "ok"
    => LET count == WholeUnits(cast.rest.total, cast.rest.unit.size)
       IN  cast_ret.ty = TierShape(cast, count,
                                   cast.rest.total - count * cast.rest.unit.size)

\* C13 amended: as stated for a rest unit of nonzero size; for a rest unit
\* of size zero the number of whole units and the remainder are both zero,
\* whatever the rest total.
C13_Amended ==
    cast_ret.status = "ok"
    => LET count == WholeUnits(cast.rest.total, cast.rest.unit.size)
       IN  cast_ret.ty = TierShape(cast, count,
                                   IF cast.rest.unit.size = 0 THEN 0
                                   ELSE cast.rest.total - count * cast.rest.unit.size)

C13_Witness ==
    /\ cast_ret.status = "ok"
    /\ cast.prefix[1] = "Float" /\ cast.prefix[2] = "None"
    /\ cast.rest.unit = [kind |-> "Integer", size |-> 4]
    /\ cast.rest.total = 9
    /\ cast_ret.ty = type_struct(<<type_f32, type_ix(32), type_ix(32), type_ix(8)>>)

\* C14 as stated: lowering a CastTarget whose rest total leaves a nonzero
\* remainder after whole rest units and whose rest unit is not Integer
\* aborts; it never returns a type.
C14_Original ==
    (/\ cast_ret.status # "none"
     /\ cast.rest.unit.kind # "Integer"
     /\ cast.rest.total
          - WholeUnits(cast.rest.total, cast.rest.unit.size) * cast.rest.unit.size # 0)
    => cast_ret.status = "abort"

\* C14 amended: lowering a CastTarget whose rest unit is not Integer and has
\* nonzero size, whose rest total is not a multiple of the unit size, and
\* which has a prefix chunk present or a rest total above one unit, aborts.
C14_Amended ==
    (/\ cast_ret.status # "none"
     /\ cast.rest.unit.kind # "Integer"
     /\ cast.rest.unit.size # 0
     /\ cast.rest.total % cast.rest.unit.size # 0
     /\ (~NoPrefix(cast) \/ cast.rest.total > cast.rest.unit.size))
    => cast_ret.status = "abort"

C14_Witness ==
    /\ cast_ret.status = "abort"
    /\ cast.rest.unit = [kind |-> "Vector", size |-> 4]
    /\ cast.rest.total = 9
    /\ cast.prefix = <<"Integer", "None">>

\* number of value slots of an argument, by classification
ValueSlotCount(arg) ==
    CASE arg.mode.kind = "Ignore" -> 0
      [] arg.mode.kind = "Pair" -> 2
      [] arg.mode.kind = "Indirect" /\ arg.mode.extra -> 2
      [] OTHER -> 1

\* <<argument, role>> of every parameter, in order: per argument its padding
\* slot if declared, then its value slots
RECURSIVE ArgRoles(_, _)
ArgRoles(args, a) ==
    IF a > Len(args) THEN <<>>
    ELSE (IF args[a].pad.some THEN <<<<a, "pad">>>> ELSE <<>>)
         \o [j \in 1..ValueSlotCount(args[a]) |-> <<a, "val">>]
         \o ArgRoles(args, a + 1)

\* C15: the parameter list of FnAbi::llvm_type is one hidden leading pointer
\* when the return is Indirect (the return type then being void), followed,
\* for each argument in declaration order, by one slot for its padding
\* register if declared and then 0 slots for Ignore, 1 for Direct, 2 for
\* Pair, 2 for Indirect with extra attributes (data pointer, then
\* metadata), 1 for Indirect without extra attributes and 1 for Cast.
C15_ParameterList ==
    (sig_ret.op = "llvm_type" /\ sig_ret.status = "ok")
    => LET slots  == sig_ret.slots
           hidden == fn_abi.ret.mode.kind = "Indirect"
           roles  == (IF hidden THEN <<<<0, "sret">>>> ELSE <<>>)
                     \o ArgRoles(fn_abi.args, 1)
       IN  /\ ParamsOf(sig_ret.ty) = [j \in 1..Len(slots) |-> slots[j].ty]
           /\ [j \in 1..Len(slots) |-> <<slots[j].arg, slots[j].role>>] = roles
           /\ hidden => /\ slots[1].ty.kind = "ptr"
                         /\ sig_ret.ty.elems[1] = type_void
           /\ \A j \in 1..Len(slots) :
                LET arg == fn_abi.args[slots[j].arg]
                IN  (/\ slots[j].role = "val"
                     /\ arg.mode.kind = "Indirect" /\ arg.mode.extra
                     /\ (j = 1 \/ slots[j - 1].arg # slots[j].arg
                               \/ slots[j - 1].role = "pad"))
                    => /\ slots[j].ty = type_ptr_to(memory_ty(arg))
                       /\ slots[j + 1].ty = arg.layout.meta

C15_Witness ==
    /\ sig_ret.op = "llvm_type" /\ sig_ret.status = "ok"
    /\ fn_abi.ret.mode.kind = "Indirect"
    /\ Len(fn_abi.args) = 2
    /\ fn_abi.args[1].mode.kind = "Pair" /\ fn_abi.args[1].pad.some
    /\ fn_abi.args[2].mode.kind = "Indirect" /\ fn_abi.args[2].mode.extra
    /\ NumParams(sig_ret.ty) = 6

\* the classifier was asked about the slot and reported a change
Changed(slot) == slot.classified /\ get_transformed_type(slot.raw).changed

\* <<position, original type>> of every changed slot from slot j on,
\* positions counted from 0 in the parameter list
RECURSIVE ChangedPairs(_, _)
ChangedPairs(slots, j) ==
    IF j > Len(slots) THEN <<>>
    ELSE (IF Changed(slots[j]) THEN <<<<j - 1, slots[j].raw>>>> ELSE <<>>)
         \o ChangedPairs(slots, j + 1)

\* C16: after FnAbi::llvm_type returned function type T, a record is stored
\* under T iff the classifier reported a change for the return type or for
\* a parameter slot; its return entry holds the original return type
\* exactly when the return changed, and its slot list holds one pair
\* (position in T's parameter list, original type) per changed slot.
C16_RecordIffChanged ==
    (sig_ret.op = "llvm_type" /\ sig_ret.status = "ok")
    => LET T     == sig_ret.ty
           pairs == ChangedPairs(sig_ret.slots, 1)
       IN  /\ T \in DOMAIN remapped_integer_args
                <=> (Changed(sig_ret.ret) \/ pairs # <<>>)
           /\ T \in DOMAIN remapped_integer_args
                => /\ remapped_integer_args[T].old_ret_ty =
                         (IF Changed(sig_ret.ret) THEN Some(sig_ret.ret.raw) ELSE None)
                   /\ remapped_integer_args[T].transformed_types = pairs
                   /\ \A j \in 1..Len(pairs) :
                        ParamsOf(T)[pairs[j][1] + 1]
                            = get_transformed_type(pairs[j][2]).ty

C16_Witness ==
    /\ sig_ret.op = "llvm_type" /\ sig_ret.status = "ok"
    /\ fn_abi.ret.mode.kind = "Indirect"
    /\ Len(fn_abi.args) = 2
    /\ fn_abi.args[1].mode.kind = "Pair"
    /\ sig_ret.ty \in DOMAIN remapped_integer_args
    /\ remapped_integer_args[sig_ret.ty].transformed_types = <<<<3, i128>>>>
    /\ ~remapped_integer_args[sig_ret.ty].old_ret_ty.some

\* the attributes of one kind among those attached
OfKind(list, kind) == SelectSeq(list, LAMBDA x : x.attr = kind)

\* the dereferenceable rule for what one entry point attached
DerefRule(list) ==
    LET N       == attrs.set.pointee_size
        nonnull == "NonNull" \in attrs.set.regular
    IN  IF N # 0
        THEN /\ OfKind(list, "Dereferenceable")
                  = (IF nonnull THEN <<Attr("Dereferenceable", N, attrs.idx)>> ELSE <<>>)
             /\ OfKind(list, "DereferenceableOrNull")
                  = (IF nonnull THEN <<>>
                     ELSE <<Attr("DereferenceableOrNull", N, attrs.idx)>>)
             /\ OfKind(list, "NonNull") = <<>>
        ELSE /\ OfKind(list, "Dereferenceable") = <<>>
             /\ OfKind(list, "DereferenceableOrNull") = <<>>
             /\ OfKind(list, "NonNull")
                  = (IF nonnull THEN <<Attr("NonNull", 0, attrs.idx)>> ELSE <<>>)

\* C17: at both sites, a nonzero pointee size attaches exactly one of
\* dereferenceable(N) (NonNull set) or dereferenceable-or-null(N) (NonNull
\* not set) and not the NonNull flag; a zero size attaches neither and
\* NonNull exactly when set; both entry points attach the same attributes
\* in the same order.
C17_DerefAttrs ==
    /\ attached.llfn_done => DerefRule(attached.llfn)
    /\ attached.callsite_done => DerefRule(attached.callsite)
    /\ (attached.llfn_done /\ attached.callsite_done)
         => attached.llfn = attached.callsite

C17_Witness ==
    /\ attached.llfn_done /\ attached.callsite_done
    /\ attrs.set.pointee_size = 8
    /\ attrs.set.regular = {"NonNull", "NoAlias", "ReadOnly"}
    /\ attrs.set.pointee_align.some
    /\ attrs.set.arg_ext = "Zext"
    /\ Len(attached.callsite) = 5

\* offsets of start..end-1 at which a maximal defined or undefined run starts
RunStarts(mask, start, end) ==
    {o \in start..(end - 1) : o = start \/ mask[o + 1] # mask[o]}

\* the maximal runs of start..end in ascending order, as [init, start, end]
MaximalRuns(mask, start, end) ==
    LET starts == RunStarts(mask, start, end)
        nth(i) == CHOOSE o \in starts : Cardinality({q \in starts : q < o}) = i - 1
    IN  [i \in 1..Cardinality(starts) |->
            [init  |-> mask[nth(i) + 1],
             start |-> nth(i),
             end   |-> IF i = Cardinality(starts) THEN end ELSE nth(i + 1)]]

\* the field of one run as-is: its literal bytes, or a placeholder of its length
RunField(run) ==
    IF run.init
    THEN [kind |-> "bytes", len |-> run.end - run.start,
          bytes |-> SubSeq(alloc.bytes, run.start + 1, run.end),
          alloc_id |-> 0, addrspace |-> "none"]
    ELSE [kind |-> "undef", len |-> run.end - run.start, bytes |-> <<>>,
          alloc_id |-> 0, addrspace |-> "none"]

\* C18: the splitter emits, when a threshold is set and the span length is
\* at or under it, one field per maximal defined or undefined sub-run in
\* ascending order; otherwise exactly one field, the single sub-run as-is
\* when the span is one sub-run, else one literal byte array covering the
\* whole span.
C18_SplitterPolicy ==
    llvals.done
    => \A p \in 1..Len(llvals.pieces) :
          LET piece == llvals.pieces[p]
              runs  == MaximalRuns(alloc.init_mask, piece.start, piece.end)
              len   == piece.end - piece.start
          IN  piece.kind = "span"
              => IF threshold.some /\ len <= threshold.max
                 THEN piece.fields = [i \in 1..Len(runs) |-> RunField(runs[i])]
                 ELSE /\ Len(piece.fields) = 1
                      /\ IF Len(runs) = 1
                         THEN piece.fields[1] = RunField(runs[1])
                         ELSE /\ piece.fields[1].kind = "bytes"
                              /\ piece.fields[1].len = len
                              /\ \A i \in 1..len :
                                   alloc.init_mask[piece.start + i]
                                   => piece.fields[1].bytes[i]
                                        = alloc.bytes[piece.start + i]

C18_Witness ==
    /\ llvals.done
    /\ threshold = [some |-> TRUE, max |-> 4]
    /\ Len(llvals.pieces) = 3
    /\ llvals.pieces[1].kind = "span" /\ llvals.pieces[1].end = 4
    /\ Len(llvals.pieces[1].fields) = 2
    /\ llvals.pieces[3].kind = "span"
    /\ llvals.pieces[3].end - llvals.pieces[3].start = 5
    /\ Len(llvals.pieces[3].fields) = 1
    /\ Cardinality(RunStarts(alloc.init_mask, llvals.pieces[3].start,
                             llvals.pieces[3].end)) = 2

\* offset of field j in the packed struct
FieldStart(fields, j) == SumLens(SubSeq(fields, 1, j - 1), 1)

IsPtr(f) == f.kind = "ptr"

\* end of the relocation piece before piece p, 0 when there is none
RECURSIVE PrevRelocEnd(_, _)
PrevRelocEnd(pieces, p) ==
    IF p <= 1 THEN 0
    ELSE IF pieces[p - 1].kind = "reloc" THEN pieces[p - 1].end
    ELSE PrevRelocEnd(pieces, p - 1)

\* C19: the fields cover disjoint byte ranges in strictly ascending offset
\* order; every relocation appears exactly once as a pointer field at its
\* own offset, in relocation order, with the span between the previous
\* relocation's end and its offset encoded immediately before it; the
\* pointer is typed in the instruction address space when the target is a
\* function and in the data address space otherwise.
C19_FieldOrder ==
    llvals.done
    => LET fields == llvals.fields
           pieces == llvals.pieces
           ptrs   == SelectSeq(fields, IsPtr)
       IN  /\ \A j \in 1..(Len(fields) - 1) : fields[j].len > 0
           /\ \A p \in 1..Len(pieces) :
                /\ pieces[p].start = (IF p = 1 THEN 0 ELSE pieces[p - 1].end)
                /\ pieces[p].start <= pieces[p].end
                /\ SumLens(pieces[p].fields, 1) = pieces[p].end - pieces[p].start
           /\ \A j \in 1..Len(fields) :
                LET o == FieldStart(fields, j)
                IN  /\ fields[j].kind = "ptr"
                         => \E r \in 1..Len(alloc.relocations) :
                               /\ alloc.relocations[r].offset = o
                               /\ alloc.relocations[r].alloc_id = fields[j].alloc_id
                    /\ fields[j].kind = "undef"
                         => \A i \in 1..fields[j].len : ~alloc.init_mask[o + i]
                    /\ fields[j].kind = "bytes"
                         => \A i \in 1..fields[j].len :
                               alloc.init_mask[o + i]
                               => fields[j].bytes[i] = alloc.bytes[o + i]
           /\ [r \in 1..Len(ptrs) |-> ptrs[r].alloc_id]
                = [r \in 1..Len(alloc.relocations) |-> alloc.relocations[r].alloc_id]
           /\ \A p \in 1..Len(pieces) :
                (pieces[p].kind = "reloc"
                 /\ pieces[p].start > PrevRelocEnd(pieces, p))
                => /\ pieces[p - 1].kind = "span"
                   /\ pieces[p - 1].start = PrevRelocEnd(pieces, p)
                   /\ pieces[p - 1].end = pieces[p].start
           /\ \A j \in 1..Len(ptrs) :
                ptrs[j].addrspace =
                    IF global_alloc(ptrs[j].alloc_id) = "Function"
                    THEN "instruction" ELSE "DATA"

C19_Witness ==
    /\ llvals.done
    /\ Len(alloc.relocations) = 2
    /\ alloc.relocations[1] = [offset |-> 1, alloc_id |-> 1]
    /\ alloc.relocations[2] = [offset |-> 9, alloc_id |-> 2]
    /\ Len(llvals.fields) = 4
    /\ llvals.fields[2].addrspace = "instruction"
    /\ llvals.fields[3].addrspace = "DATA"

C21_RegLowering ==
    reg_st.op = "llvm_type"
    => LET bits == reg_st.reg.size * 8
       IN  CASE reg_st.reg.kind = "Integer" ->
                  /\ reg_st.status = "ok"
                  /\ reg_st.ty = [kind |-> "int", n |-> bits, elems |-> <<>>]
             [] reg_st.reg.kind = "Float" ->
                  IF bits \in {32, 64}
                  THEN /\ reg_st.status = "ok"
                       /\ reg_st.ty = [kind |-> "float", n |-> bits, elems |-> <<>>]
                  ELSE reg_st.status = "abort"
             [] reg_st.reg.kind = "Vector" ->
                  /\ reg_st.status = "ok"
                  /\ reg_st.ty.kind = "vector"
                  /\ reg_st.ty.n = reg_st.reg.size
                  /\ reg_st.ty.elems = <<[kind |-> "int", n |-> 8, elems |-> <<>>]>>

C21_Witness ==
    /\ reg_st.op = "llvm_type"
    /\ reg_st.reg = [kind |-> "Float", size |-> 16]
    /\ reg_st.status = "abort"

\* C22: check_and_apply_linkage aborts for a static whose linkage attribute
\* is Appending or ExternalWeak, and does so before it declares or defines
\* any global: the module's globals are what they were before the call.  For
\* every other linkage kind the call does not abort on account of the kind.
C22_UnsupportedLinkage ==
    link_st.op = "check_and_apply_linkage"
    => IF link_st.static.linkage \in {"Appending", "ExternalWeak"}
       THEN /\ link_st.out.abort
            /\ link_st.out.cause = "linkage"
            /\ link_st.out.globals = link_st.globals
       ELSE link_st.out.cause # "linkage"

C22_Witness ==
    /\ link_st.op = "check_and_apply_linkage"
    /\ link_st.static = [linkage |-> "ExternalWeak", raw_ptr |-> TRUE]
    /\ link_st.globals = [n \in {"sym", "real"} |-> "absent"]
    /\ link_st.out.abort

\* the configured pass names of the given registry kinds, in order
PassesOfKind(passes, kinds) ==
    SelectSeq(passes, LAMBDA p : PassRegistry[p] \in kinds)

\* the passes a manager holds beyond the prepopulated ones
Configured(added, config) ==
    IF config.no_prepopulate_passes THEN added ELSE SubSeq(added, 3, Len(added))

\* C23 (as stated): every configured pass name the registry does not know
\* produces a warning and adds no pass, the remaining configured passes are
\* added in order, both pass managers are run and optimize returns Ok;
\* stated for configurations that name an unknown pass and in which the
\* unknown names are the only trouble.
C23_Original ==
    (/\ opt_st.op = "optimize"
     /\ PassesOfKind(opt_st.config.passes, {"none"}) # <<>>
     /\ PassesOfKind(opt_st.config.passes, {"Other"}) = <<>>)
    => /\ opt_st.out.warnings = PassesOfKind(opt_st.config.passes, {"none"})
       /\ Configured(opt_st.out.fpm, opt_st.config)
            = PassesOfKind(opt_st.config.passes, {"Function"})
       /\ Configured(opt_st.out.mpm, opt_st.config)
            = PassesOfKind(opt_st.config.passes, {"Module"})
       /\ opt_st.out.ran = <<"fpm", "mpm">>
       /\ opt_st.out.result = "Ok"
       /\ opt_st.out.errors = 0

\* C23 (amended): without an optimization level optimize returns Ok without
\* consulting the registry: no warning, no pass added, no manager run.  With
\* one, every unknown name produces a warning and adds no pass, the known
\* names are added in order to the manager of their kind, and an unknown
\* name reports no error; both managers run and optimize returns Ok exactly
\* when no configured pass is of a kind that cannot be handled.
C23_Amended ==
    opt_st.op = "optimize"
    => IF ~opt_st.config.opt_level
       THEN opt_st.out = [NoPasses EXCEPT !.result = "Ok"]
       ELSE /\ opt_st.out.warnings = PassesOfKind(opt_st.config.passes, {"none"})
            /\ Configured(opt_st.out.fpm, opt_st.config)
                 = PassesOfKind(opt_st.config.passes, {"Function"})
            /\ Configured(opt_st.out.mpm, opt_st.config)
                 = PassesOfKind(opt_st.config.passes, {"Module"})
            /\ opt_st.out.errors = Len(PassesOfKind(opt_st.config.passes, {"Other"}))
            /\ IF opt_st.out.errors = 0
               THEN opt_st.out.ran = <<"fpm", "mpm">> /\ opt_st.out.result = "Ok"
               ELSE opt_st.out.ran = <<>> /\ opt_st.out.result = "abort"

C23_Witness ==
    /\ opt_st.op = "optimize"
    /\ opt_st.config.opt_level
    /\ opt_st.config.passes = <<"function_pass", "unknown_pass", "function_pass_2">>
    /\ opt_st.out.warnings = <<"unknown_pass">>
    /\ opt_st.out.result = "Ok"

\* the context of a unit that performs the operations of hist alone
RECURSIVE Replay(_, _)
Replay(hist, n) ==
    IF n = 0 THEN NewCx ELSE Apply(Replay(hist, n - 1), hist[n])

\* C24: under any interleaving of the operations of two compilation units,
\* the remap table and the interning caches of each unit are the ones the
\* unit would have had it run its operations alone: no operation of one unit
\* reads or writes the caches of the other.
C24_UnitsIsolated ==
    units_st.op = "units"
    => \A u \in Units :
          units_st.cx[u] = Replay(units_st.hist[u], Len(units_st.hist[u]))

C24_Witness ==
    /\ units_st.op = "units"
    /\ units_st.hist[1] = <<Op("llvm_type", "T", "record_1"), Op("static_addr_of", "c", 1)>>
    /\ units_st.hist[2] = <<Op("llvm_type", "T", "record_2"), Op("static_addr_of", "c", 8)>>
    /\ units_st.cx[1].remapped_integer_args["T"] = "record_1"
    /\ units_st.cx[2].remapped_integer_args["T"] = "record_2"

\* C25: when a remapped call is pending in last_call_llfn,
\* apply_attrs_callsite attaches everything to that recorded call instead of
\* the value it was handed and clears last_call_llfn, so that the recorded
\* call redirects exactly one invocation; when nothing is pending it attaches
\* to the value it was handed and last_call_llfn stays empty.
C25_PendingCallRedirect ==
    call_st.op = "calls"
    => \A i \in 1..Len(call_st.log) :
          LET e == call_st.log[i]
          IN  e.kind = "apply"
              => /\ e.after = "None"
                 /\ IF e.pending # "None" THEN e.target = e.pending
                                          ELSE e.target = e.given
                 /\ (i > 1 /\ call_st.log[i - 1].kind = "apply")
                       => e.target = e.given
                 /\ (i = Len(call_st.log)) => call_st.last_call_llfn = "None"

C25_Witness ==
    /\ call_st.op = "calls"
    /\ Len(call_st.log) = 3
    /\ call_st.log[1].kind = "call"
    /\ call_st.log[2].kind = "apply"
    /\ call_st.log[2].given = "bitcast_of_remapped_call"
    /\ call_st.log[2].target = "remapped_call"
    /\ call_st.log[2].range
    /\ call_st.log[2].applied # <<>>
    /\ call_st.log[3].kind = "apply"
    /\ call_st.log[3].target = "plain_call"

\* the applications to argument positions, in the order they were made
Placed(applied) == SelectSeq(applied, LAMBDA e : e.place # ReturnValue)

\* the applications agree with the slots: application k is at position k - 1
\* and belongs to the argument slot k belongs to
PositionsMatch(placed, slots) ==
    /\ Len(placed) = Len(slots)
    /\ \A k \in 1..Len(placed) :
          /\ placed[k].place = k - 1
          /\ placed[k].arg = slots[k].arg
          /\ (slots[k].role = "pad") => placed[k].what = "new"
          /\ (slots[k].role = "sret") => placed[k].what = "attrs"

\* C26: for every descriptor on which they do not abort, apply_attrs_llfn
\* and apply_attrs_callsite attach each argument's attribute sets at the
\* positions of the slots FnAbi::llvm_type emits for that argument (the
\* hidden return pointer at 0, one per declared padding register even for an
\* Ignore argument, two for Pair and Indirect with extra attributes, one for
\* Direct, Indirect and Cast, none for Ignore), so that the positions
\* consumed are as many as the concrete parameters; the definition site
\* puts the structure-return marker on position 0 exactly when the return is
\* Indirect.
C26_AttrPositions ==
    (/\ sig_ret.op \in {"apply_attrs_llfn", "apply_attrs_callsite"}
     /\ sig_ret.status = "ok")
    => \A r \in {FnAbi_llvm_type(fn_abi)} :
          ~r.abort
          => /\ PositionsMatch(Placed(sig_ret.applied), r.slots)
             /\ Len(Placed(sig_ret.applied)) = NumParams(r.ty)
             /\ [k \in 1..Len(r.slots) |-> <<r.slots[k].arg, r.slots[k].role>>]
                  = (IF fn_abi.ret.mode.kind = "Indirect"
                     THEN <<<<0, "sret">>>> ELSE <<>>) \o ArgRoles(fn_abi.args, 1)
             /\ sig_ret.op = "apply_attrs_llfn"
                  => sig_ret.sret = (IF fn_abi.ret.mode.kind = "Indirect"
                                     THEN 0 ELSE ReturnValue)

C26_Witness ==
    /\ sig_ret.op = "apply_attrs_llfn"
    /\ sig_ret.status = "ok"
    /\ fn_abi.ret.mode.kind = "Indirect"
    /\ sig_ret.sret = 0
    /\ Len(fn_abi.args) = 2
    /\ fn_abi.args[1].mode.kind = "Ignore" /\ fn_abi.args[1].pad.some
    /\ fn_abi.args[2].mode.kind = "Pair"
    /\ Len(Placed(sig_ret.applied)) = 4
    /\ ~FnAbi_llvm_type(fn_abi).abort

\* C27: for any sequence of signature lowerings in one unit, get_param
\* reinterprets parameter i of a function only if the lowering of that
\* function's own descriptor reported slot i as changed; otherwise the raw
\* parameter comes back, even when another descriptor with the same concrete
\* function type recorded a remapping for slot i.
C27_Original ==
    (sig_ret.op = "get_param")
    => \A own \in {FnAbi_llvm_type(fn_abi).record.transformed_types} :
          IF \E e \in Range(own) : e[1] = sig_ret.idx
          THEN TRUE
          ELSE sig_ret.vals = <<RawParam(sig_ret.ty, sig_ret.idx)>>

\* the largest alignment requested for constant cv by the first n calls
RECURSIVE MaxAlign(_, _, _)
MaxAlign(hist, cv, n) ==
    IF n = 0 THEN 0
    ELSE IF hist[n].key = cv /\ hist[n].val > MaxAlign(hist, cv, n - 1)
         THEN hist[n].val
         ELSE MaxAlign(hist, cv, n - 1)

\* C28: for any sequence of static_addr_of calls in one unit, calls with the
\* same constant return the same global, there is exactly one global per
\* distinct constant, and the alignment of a constant's global is never
\* lowered: after every call it is the largest alignment requested for the
\* constant so far.
C28_StaticAddrOf ==
    units_st.op = "units"
    => \A hist \in {units_st.hist[1]} :
          /\ units_st.cx[1] = Replay(hist, Len(hist))
          /\ \A n \in 1..Len(hist) :
                \A cx \in {Replay(hist, n)} :
                   /\ DOMAIN cx.const_globals = {hist[i].key : i \in 1..n}
                   /\ \A c1, c2 \in DOMAIN cx.const_globals :
                         cx.const_globals[c1] = cx.const_globals[c2] => c1 = c2
                   /\ DOMAIN cx.alignment
                        = {cx.const_globals[c] : c \in DOMAIN cx.const_globals}
                   /\ \A c \in DOMAIN cx.const_globals :
                         /\ cx.alignment[cx.const_globals[c]] = MaxAlign(hist, c, n)
                         /\ cx.const_globals[c] = units_st.cx[1].const_globals[c]

C28_Witness ==
    /\ units_st.op = "units"
    /\ units_st.hist[1] = <<Op("static_addr_of", "c1", 4), Op("static_addr_of", "c2", 8),
                            Op("static_addr_of", "c1", 1)>>
    /\ units_st.cx[1].alignment[units_st.cx[1].const_globals["c1"]] = 4
    /\ Cardinality(DOMAIN units_st.cx[1].alignment) = 2

\* C29: in module_codegen every mono item is predefined before any is
\* defined; a global that codegen_static replaced stays in the module until
\* all items are defined; then every recorded <<old, new>> pair is processed
\* exactly once, the uses of old being replaced by new before old is
\* deleted; and all that is done before the llvm.used variables are
\* created and the module is returned.
C29_ModuleCodegenOrder ==
    module_st.op = "module_codegen"
    => \A m \in {module_st} :
          /\ m.defined # <<>> => m.predefined = m.items
          /\ m.defined # m.items
               => /\ m.processed = <<>>
                  /\ \A k \in 1..Len(m.cx.statics_to_rauw) :
                        m.cx.statics_to_rauw[k][1] \in DOMAIN m.cx.alignment
          /\ m.processed = SubSeq(m.cx.statics_to_rauw, 1, Len(m.processed))
          /\ \A a, b \in 1..Len(m.cx.statics_to_rauw) :
                m.cx.statics_to_rauw[a] = m.cx.statics_to_rauw[b] => a = b
          /\ \A u \in m.uses : u[2] \in DOMAIN m.cx.alignment
          /\ m.pc = "delete"
               => \A u \in m.uses : u[2] # m.cx.statics_to_rauw[m.i][1]
          /\ (m.used_var \/ m.pc \in {"return", "done"})
               => /\ m.defined = m.items
                  /\ m.processed = m.cx.statics_to_rauw
                  /\ \A k \in 1..Len(m.processed) :
                        /\ m.processed[k][1] \notin DOMAIN m.cx.alignment
                        /\ m.processed[k][2] \in DOMAIN m.cx.alignment

C29_Witness ==
    /\ module_st.op = "module_codegen"
    /\ module_st.pc = "done"
    /\ module_st.items = <<[kind |-> "Fn", name |-> "user"],
                           [kind |-> "Static", name |-> "retyped"],
                           [kind |-> "Fn", name |-> "no_mangle"]>>
    /\ module_st.processed = <<<<<<"retyped", 0>>, <<"retyped", 1>>>>>>
    /\ module_st.uses = {<<"user", <<"retyped", 1>>>>}
    /\ module_st.used_var

\* the arguments and the return of a descriptor, before and after
ReadjustedPairs(in, out) ==
    {<<in.args[j], out.args[j]>> : j \in 1..Len(in.args)} \cup {<<in.ret, out.ret>>}

\* C30: for a descriptor of a non-Rust convention readjust_fn_abi classifies
\* every zero-sized argument and a zero-sized return, of any type, as Ignore
\* and leaves nothing of Aggregate layout classified Indirect; a descriptor
\* of the Rust convention is returned unchanged; argument count, order,
\* layouts, padding, variadic flag, convention and can_unwind are preserved
\* in every case.
C30_Original ==
    readjust_st.op = "readjust_fn_abi"
    => \A in \in {readjust_st.fn_abi}, out \in {readjust_st.out} :
          /\ in.conv = "Rust" => out = in
          /\ Len(out.args) = Len(in.args)
          /\ out.conv = in.conv
          /\ out.c_variadic = in.c_variadic
          /\ out.can_unwind = in.can_unwind
          /\ \A p \in ReadjustedPairs(in, out) :
                /\ p[2].layout = p[1].layout
                /\ p[2].pad = p[1].pad
                /\ in.conv # "Rust"
                     => /\ p[2].layout.zst => p[2].mode.kind = "Ignore"
                        /\ p[2].layout.abi = "Aggregate" => p[2].mode.kind # "Indirect"

====
